---- MODULE Spec2Model ----
(***************************************************************************)
(* 5G NR Uplink Control Information codec (lib/src/phy/phch/uci_nr.c):     *)
(* the class coders for A = 1, A = 2, 3..11 and the segmented polar path,  *)
(* and the dispatch uci_nr_encode / uci_nr_decode over them.               *)
(*                                                                         *)
(* C arrays are 0-based; the sequences below are 1-based, so C index i is  *)
(* sequence index i + 1.  A float comparison is stated as the equivalent   *)
(* comparison of integers (both sides squared where a square root occurs). *)
(***************************************************************************)
EXTENDS Integers, Sequences, FiniteSets, TLC

(***************************************************************************)
(* Bounds of the model.                                                    *)
(***************************************************************************)
\* largest E of a call of the 1-bit and 2-bit classes
MaxSmallE == 24
\* payload lengths taken around each boundary of the class dispatch
ADelta == 1
\* number of payload patterns for payloads longer than two bits
NPat == 2
\* magnitude of a noise-free LLR
LMag == 100
\* largest E of a call of the block and polar classes
MaxLargeE == 1730
\* rate-matched lengths taken around 0 and around the segmentation threshold
EDelta == 2
\* largest number of symbols and of PRB of a PUCCH resource
MaxSym == 8
MaxPrb == 2
\* largest spreading factor (occ_lenth) of a PUCCH resource
MaxOcc == 3
\* largest o_ack, o_sr and number of CSI part 1 bits of a UCI configuration
MaxAck == 3
MaxSr == 2
MaxCsi == 2
\* subcarriers per symbol carrying UCI, and spatial layers
MaxSc == 1
MaxLayers == 2
\* calls of srslte_uci_nr_init and srslte_uci_nr_free on one handle
MaxCalls == 4

(***************************************************************************)
(* Values of the headers the source includes.                              *)
(***************************************************************************)
SRSLTE_SUCCESS == 0
SRSLTE_ERROR == -1
SRSLTE_ERROR_INVALID_INPUTS == -2
UCI_BIT_0 == 0
UCI_BIT_1 == 1
UCI_BIT_REPETITION == 255
UCI_BIT_PLACEHOLDER == 254
SRSLTE_UCI_NR_MAX_NOF_BITS == 1706
SRSLTE_FEC_BLOCK_MAX_NOF_BITS == 11
\* UCI_NR_BLOCK_DEFAULT_CORR_THRESHOLD and UCI_NR_ONE_BIT_CORR_THRESHOLD, 0.5f
DefaultThreshold == [num |-> 1, den |-> 2]

\* srslte_mod_bits_x_symbol: a modulation is named by its bits per symbol,
\* 0 for a value that is no modulation (SRSLTE_MOD_NITEMS)
Modulations == {0, 1, 2, 4, 6, 8}

INT8_MIN == -(2^7)

\* SRSLTE_CEIL(NUM, DEN)
SRSLTE_CEIL(num, den) == (num + (den - 1)) \div den

\* conversion of an int to int8_t (two's complement wrap)
ToInt8(x) == ((x + 2^7) % 2^8) - 2^7

(***************************************************************************)
(* srslte_uci_nr_crc_len                                                   *)
(***************************************************************************)
srslte_uci_nr_crc_len(A) == IF A <= 11 THEN 0 ELSE IF A < 20 THEN 6 ELSE 11

(***************************************************************************)
(* Helpers for buffers.                                                    *)
(***************************************************************************)
\* number of passes of a loop "while (i < E) { n writes of o[i++] }"
LoopPasses(E, n) == IF E = 0 THEN 0 ELSE ((E - 1) \div n) + 1

\* the bytes such a loop writes, from o[0] on: whole passes of its body
WhileEmit(body, E) ==
  LET n == Len(body)
  IN [i \in 1..(LoopPasses(E, n) * n) |-> body[((i - 1) % n) + 1]]

\* a buffer after bytes are written to it from its index 0 on
WritePrefix(buf, bytes) ==
  LET n == Len(bytes)
      m == Len(buf)
  IN [i \in 1..(IF n > m THEN n ELSE m) |-> IF i <= n THEN bytes[i] ELSE buf[i]]

\* llr[i] of a buffer of E values; a read past its end yields whatever
\* the memory behind it holds
LlrAt(llr, i, oob) == IF i < Len(llr) THEN llr[i + 1] ELSE oob

(***************************************************************************)
(* uci_nr_encode_1bit                                                      *)
(***************************************************************************)
Encode1Body(mod, c0) ==
  CASE mod = 1 -> <<c0>>
    [] mod = 2 -> <<c0, UCI_BIT_REPETITION>>
    [] mod = 4 -> <<c0, UCI_BIT_REPETITION, UCI_BIT_PLACEHOLDER, UCI_BIT_PLACEHOLDER>>
    [] mod = 6 -> <<c0, UCI_BIT_REPETITION, UCI_BIT_PLACEHOLDER, UCI_BIT_PLACEHOLDER,
                    UCI_BIT_PLACEHOLDER, UCI_BIT_PLACEHOLDER>>
    [] mod = 8 -> <<c0, UCI_BIT_REPETITION, UCI_BIT_PLACEHOLDER, UCI_BIT_PLACEHOLDER,
                    UCI_BIT_PLACEHOLDER, UCI_BIT_PLACEHOLDER, UCI_BIT_PLACEHOLDER,
                    UCI_BIT_PLACEHOLDER>>
    [] OTHER -> <<>>

uci_nr_encode_1bit(bits, mod, E) ==
  LET c0 == IF bits[1] = 0 THEN UCI_BIT_0 ELSE UCI_BIT_1
  IN IF mod \in {1, 2, 4, 6, 8}
     THEN [ret |-> E, o |-> WhileEmit(Encode1Body(mod, c0), E)]
     ELSE [ret |-> SRSLTE_ERROR, o |-> <<>>]

(***************************************************************************)
(* uci_nr_decode_1_bit                                                     *)
(***************************************************************************)
RECURSIVE Corr1(_, _, _, _)
Corr1(llr, E, Qm, i) == IF i >= E THEN 0 ELSE llr[i + 1] + Corr1(llr, E, Qm, i + Qm)

RECURSIVE Pwr1(_, _, _, _)
Pwr1(llr, E, Qm, i) ==
  IF i >= E THEN 0 ELSE llr[i + 1] * llr[i + 1] + Pwr1(llr, E, Qm, i + Qm)

\* norm_corr > thr for norm_corr = Qm * corr / (E * sqrtf(pwr)) and thr > 0;
\* 0/0 is NaN, which is above nothing
NormCorrAbove(Qm, corr, pwr, E, thr) ==
  /\ E > 0
  /\ pwr > 0
  /\ corr > 0
  /\ (Qm * corr * thr.den) * (Qm * corr * thr.den) > (thr.num * E) * (thr.num * E) * pwr

uci_nr_decode_1_bit(thr, Qm, llr, E) ==
  IF Qm = 0
  THEN [ret |-> SRSLTE_ERROR, set_ok |-> FALSE, ok |-> FALSE, bits |-> <<>>]
  ELSE LET corr == Corr1(llr, E, Qm, 0)
           pwr == Pwr1(llr, E, Qm, 0)
       IN [ret |-> SRSLTE_SUCCESS,
           set_ok |-> TRUE,
           ok |-> NormCorrAbove(Qm, corr, pwr, E, thr),
           bits |-> <<IF corr < 0 THEN 0 ELSE 1>>]

(***************************************************************************)
(* uci_nr_encode_2bit                                                      *)
(***************************************************************************)
\* Variant: 16QAM with the second symbol's pair in the wrong order.
Encode2BodySwapped(mod, c0, c1, c2) ==
  LET PH == UCI_BIT_PLACEHOLDER
  IN CASE mod \in {1, 2} -> <<c0, c1, c2>>
       [] mod = 4 -> <<c0, c1, PH, PH, c0, c2, PH, PH, c1, c2, PH, PH>>
       [] mod = 6 -> <<c0, c1, PH, PH, PH, PH, c2, c0, PH, PH, PH, PH,
                       c1, c2, PH, PH, PH, PH>>
       [] mod = 8 -> <<c0, c1, PH, PH, PH, PH, PH, PH, c2, c0, PH, PH, PH, PH, PH, PH,
                       c1, c2, PH, PH, PH, PH, PH, PH>>
       [] OTHER -> <<>>

Encode2Body(mod, c0, c1, c2) ==
  LET PH == UCI_BIT_PLACEHOLDER
  IN CASE mod \in {1, 2} -> <<c0, c1, c2>>
       [] mod = 4 -> <<c0, c1, PH, PH, c2, c0, PH, PH, c1, c2, PH, PH>>
       [] mod = 6 -> <<c0, c1, PH, PH, PH, PH, c2, c0, PH, PH, PH, PH,
                       c1, c2, PH, PH, PH, PH>>
       [] mod = 8 -> <<c0, c1, PH, PH, PH, PH, PH, PH, c2, c0, PH, PH, PH, PH, PH, PH,
                       c1, c2, PH, PH, PH, PH, PH, PH>>
       [] OTHER -> <<>>

\* bitwise exclusive or of two bits
Xor(x, y) == IF x = y THEN 0 ELSE 1

uci_nr_encode_2bit(bits, mod, E) ==
  LET c0 == IF bits[1] = 0 THEN UCI_BIT_0 ELSE UCI_BIT_1
      c1 == IF bits[2] = 0 THEN UCI_BIT_0 ELSE UCI_BIT_1
      c2 == IF Xor(bits[1], bits[2]) = 0 THEN UCI_BIT_0 ELSE UCI_BIT_1
  IN IF mod \in {1, 2, 4, 6, 8}
     THEN [ret |-> E, o |-> WhileEmit(Encode2Body(mod, c0, c1, c2), E)]
     ELSE [ret |-> SRSLTE_ERROR, o |-> <<>>]

(***************************************************************************)
(* uci_nr_decode_2_bit                                                     *)
(***************************************************************************)
\* for (i = 0; i < E / Qm; i++) corr[i % 3] = llr[i];
RECURSIVE Corr2Bpsk(_, _, _, _)
Corr2Bpsk(llr, n, i, corr) ==
  IF i >= n THEN corr
  ELSE Corr2Bpsk(llr, n, i + 1, [corr EXCEPT ![(i % 3) + 1] = llr[i + 1]])

\* for (i = 0, j = 0; i < E; i += Qm) { corr[(j++) % 3] = llr[i]; corr[(j++) % 3] = llr[i + 1]; }
RECURSIVE Corr2Qam(_, _, _, _, _, _, _)
Corr2Qam(llr, E, Qm, oob, i, j, corr) ==
  IF i >= E THEN corr
  ELSE LET first == [corr EXCEPT ![(j % 3) + 1] = LlrAt(llr, i, oob)]
           second == [first EXCEPT ![((j + 1) % 3) + 1] = LlrAt(llr, i + 1, oob)]
       IN Corr2Qam(llr, E, Qm, oob, i + Qm, j + 2, second)

\* Variant: every modulation sampled as BPSK is, placeholders included.
Decode2CorrBpskOnly(Qm, llr, E, oob) == Corr2Bpsk(llr, E \div Qm, 0, <<0, 0, 0>>)

Decode2Corr(Qm, llr, E, oob) ==
  IF Qm = 1 THEN Corr2Bpsk(llr, E \div Qm, 0, <<0, 0, 0>>)
  ELSE Corr2Qam(llr, E, Qm, oob, 0, 0, <<0, 0, 0>>)

\* Variant: the parity test with the wrong polarity.
Decode2ParityEven(c0, c1, c2) == c2 = (c0 = c1)

\* *decoded_ok = (c2 == (c0 ^ c1))
Decode2Parity(c0, c1, c2) == c2 = (c0 # c1)

uci_nr_decode_2_bit(Qm, llr, E, oob) ==
  IF Qm = 0
  THEN [ret |-> SRSLTE_ERROR, set_ok |-> FALSE, ok |-> FALSE, bits |-> <<>>]
  ELSE LET corr == Decode2Corr(Qm, llr, E, oob)
           c0 == corr[1] > 0
           c1 == corr[2] > 0
           c2 == corr[3] > 0
       IN [ret |-> SRSLTE_SUCCESS,
           set_ok |-> TRUE,
           ok |-> Decode2Parity(c0, c1, c2),
           bits |-> <<IF c0 THEN 1 ELSE 0, IF c1 THEN 1 ELSE 0>>]

(***************************************************************************)
(* The 32-bit block code (srslte_block_encode, srslte_block_decode_i8) and *)
(* srslte_vec_avg_power_bf: a lossless pair that repeats the payload.      *)
(***************************************************************************)
srslte_block_encode(bits, A, E) ==
  [i \in 1..E |-> IF A = 0 THEN 0 ELSE bits[(((i - 1) % 32) % A) + 1]]

\* the payload srslte_block_decode_i8 decides on
srslte_block_decode_i8(llr, E, A) ==
  [k \in 1..A |-> IF k <= E /\ llr[k] > 0 THEN 1 ELSE 0]

\* the average power of a buffer of int8 values is zero iff all are zero
AvgPowerIsNormal(llr, E) == \E i \in 1..E : llr[i] # 0

(***************************************************************************)
(* uci_nr_encode_3_11_bit, uci_nr_decode_3_11_bit                          *)
(***************************************************************************)
uci_nr_encode_3_11_bit(bits, A, E) ==
  [ret |-> E, o |-> srslte_block_encode(bits, A, E)]

\* *decoded_ok = (corr > q->block_code_threshold), corr an integer
BlockCorrAbove(corr, thr) == corr * thr.den > thr.num

uci_nr_decode_3_11_bit(thr, A, llr, E, corr) ==
  IF E < 1
  THEN [ret |-> SRSLTE_ERROR_INVALID_INPUTS, set_ok |-> FALSE, ok |-> FALSE, bits |-> <<>>]
  ELSE IF A = 11 /\ E <= 16
  THEN [ret |-> SRSLTE_ERROR, set_ok |-> FALSE, ok |-> FALSE, bits |-> <<>>]
  ELSE IF ~AvgPowerIsNormal(llr, E)
  THEN [ret |-> SRSLTE_ERROR, set_ok |-> FALSE, ok |-> FALSE, bits |-> <<>>]
  ELSE [ret |-> SRSLTE_SUCCESS,
        set_ok |-> TRUE,
        ok |-> BlockCorrAbove(corr, thr),
        bits |-> srslte_block_decode_i8(llr, E, A)]

(***************************************************************************)
(* The polar primitives: CRC, polar code parameters, and the chains        *)
(* channel allocation / polar encoding / rate matching and back, as a      *)
(* lossless pair.                                                          *)
(***************************************************************************)
\* srslte_crc_checksum: an L-bit checksum of the bits of data
srslte_crc_checksum(L, data) ==
  (Cardinality({i \in 1..Len(data) : data[i] = 1 /\ i % 2 = 1})
     + 3 * Cardinality({i \in 1..Len(data) : data[i] = 1 /\ i % 2 = 0})) % (2^L)

\* srslte_bit_unpack: value as an n-bit field, most significant bit first
srslte_bit_unpack(value, n) == [j \in 1..n |-> (value \div (2^(n - j))) % 2]

\* srslte_bit_pack: the value of an n-bit field, most significant bit first
RECURSIVE srslte_bit_pack(_, _)
srslte_bit_pack(field, n) ==
  IF n = 0 THEN 0 ELSE 2 * srslte_bit_pack(field, n - 1) + field[n]

\* srslte_crc_attach: data followed by its checksum
srslte_crc_attach(L, data) == data \o srslte_bit_unpack(srslte_crc_checksum(L, data), L)

\* srslte_polar_code_get succeeds iff the block fits the rate-matched length
srslte_polar_code_get(K_r, E_r) == E_r >= K_r

\* chanalloc_tx, polar_encoder_encode, polar_rm_tx of one block
PolarTx(cw, E_r) ==
  LET K_r == Len(cw)
  IN [i \in 1..E_r |-> cw[((i - 1) % K_r) + 1]]

\* polar_rm_rx_c, polar_decoder_decode_c, chanalloc_rx of one block:
\* the polar decoder reads a positive LLR as bit 0
PolarRx(block, K_r) == [k \in 1..K_r |-> IF block[k] < 0 THEN 1 ELSE 0]

(***************************************************************************)
(* uci_nr_encode_11_1706_bit                                               *)
(***************************************************************************)
EncPolarParams(A, E_uci) ==
  LET I_seg == IF (A >= 360 /\ E_uci >= 1088) \/ A >= 1013 THEN 1 ELSE 0
      L == srslte_uci_nr_crc_len(A)
      C == IF I_seg = 1 THEN 2 ELSE 1
      A_prime == SRSLTE_CEIL(A, C) * C
  IN [I_seg |-> I_seg, L |-> L, C |-> C, A_prime |-> A_prime,
      K_r |-> A_prime \div C + L, E_r |-> E_uci \div C]

\* number of payload bits blocks 0..r-1 take: the value of s as block r starts
PayloadBefore(par, A, r) == IF r = 0 THEN 0 ELSE r * (par.A_prime \div par.C) - (par.A_prime - A)

\* q->c[0 .. A_prime / C - 1] of block r: the zero prefix, then payload bits
EncBlockInfo(bits, par, A, r) ==
  LET prefix == IF r = 0 THEN par.A_prime - A ELSE 0
      s == PayloadBefore(par, A, r)
  IN [k \in 1..(par.A_prime \div par.C) |->
        IF k <= prefix THEN 0 ELSE bits[s + (k - prefix)]]

\* the part of o block r writes
EncBlock(bits, par, A, r) ==
  PolarTx(srslte_crc_attach(par.L, EncBlockInfo(bits, par, A, r)), par.E_r)

\* o after blocks 0..n-1: block r is written from o[E_r * r] on
RECURSIVE EncBlocks(_, _, _, _)
EncBlocks(bits, par, A, n) ==
  IF n = 0 THEN <<>> ELSE EncBlocks(bits, par, A, n - 1) \o EncBlock(bits, par, A, n - 1)

\* fail_at: the block at which srslte_polar_encoder_encode fails, if any
uci_nr_encode_11_1706_bit(bits, A, E_uci, fail_at) ==
  LET par == EncPolarParams(A, E_uci)
  IN IF ~srslte_polar_code_get(par.K_r, par.E_r)
     THEN [ret |-> SRSLTE_ERROR, o |-> <<>>, par |-> par]
     ELSE IF fail_at \in 0..(par.C - 1)
     THEN [ret |-> SRSLTE_ERROR, o |-> EncBlocks(bits, par, A, fail_at), par |-> par]
     ELSE [ret |-> E_uci, o |-> EncBlocks(bits, par, A, par.C), par |-> par]

(***************************************************************************)
(* uci_nr_decode_11_1706_bit                                               *)
(***************************************************************************)
\* Variant: segmentation only above the rate-matched length 1088.
DecPolarParamsStrict(A, E_uci) ==
  LET I_seg == IF (A >= 360 /\ E_uci > 1088) \/ A >= 1013 THEN 1 ELSE 0
      L == srslte_uci_nr_crc_len(A)
      C == IF I_seg = 1 THEN 2 ELSE 1
      A_prime == SRSLTE_CEIL(A, C) * C
  IN [I_seg |-> I_seg, L |-> L, C |-> C, A_prime |-> A_prime,
      K_r |-> A_prime \div C + L, E_r |-> E_uci \div C]

DecPolarParams(A, E_uci) ==
  LET I_seg == IF (A >= 360 /\ E_uci >= 1088) \/ A >= 1013 THEN 1 ELSE 0
      L == srslte_uci_nr_crc_len(A)
      C == IF I_seg = 1 THEN 2 ELSE 1
      A_prime == SRSLTE_CEIL(A, C) * C
  IN [I_seg |-> I_seg, L |-> L, C |-> C, A_prime |-> A_prime,
      K_r |-> A_prime \div C + L, E_r |-> E_uci \div C]

\* Variant: every LLR of the buffer negated, those of a second block too.
NegateWholeBuffer(llr, par) == [i \in 1..Len(llr) |-> ToInt8(llr[i] * (-1))]

\* for (i = 0; i < E_r; i++) llr[i] *= -1;
NegateLlr(llr, par) ==
  LET E_r == par.E_r
  IN [i \in 1..Len(llr) |-> IF i <= E_r THEN ToInt8(llr[i] * (-1)) ELSE llr[i]]

\* q->c of block r: the decoded info bits and CRC
DecBlockCw(llr, par, r) ==
  LET first == par.E_r * r
  IN PolarRx([i \in 1..par.E_r |-> llr[first + i]], par.K_r)

\* checksum1 == checksum2 of block r
DecBlockCrcOk(llr, par, r) ==
  LET cw == DecBlockCw(llr, par, r)
      info == SubSeq(cw, 1, par.A_prime \div par.C)
      tail == SubSeq(cw, (par.A_prime \div par.C) + 1, par.K_r)
  IN srslte_crc_checksum(par.L, info) = srslte_bit_pack(tail, par.L)

\* the payload bits block r appends to q->bit_sequence
DecBlockPayload(llr, par, A, r) ==
  LET prefix == IF r = 0 THEN par.A_prime - A ELSE 0
  IN SubSeq(DecBlockCw(llr, par, r), prefix + 1, par.A_prime \div par.C)

RECURSIVE DecPayload(_, _, _, _)
DecPayload(llr, par, A, n) ==
  IF n = 0 THEN <<>>
  ELSE DecPayload(llr, par, A, n - 1) \o DecBlockPayload(llr, par, A, n - 1)

\* (*decoded_ok) = ((*decoded_ok) && (checksum1 == checksum2)) over blocks 0..n-1
DecCrcAllOk(llr, par, n) == \A r \in 0..(n - 1) : DecBlockCrcOk(llr, par, r)

\* fail_at: the block at which srslte_polar_decoder_decode_c fails, if any
uci_nr_decode_11_1706_bit(A, llr, E_uci, fail_at) ==
  LET par == DecPolarParams(A, E_uci)
      neg == NegateLlr(llr, par)
      n == IF fail_at \in 0..(par.C - 1) THEN fail_at ELSE par.C
  IN IF ~srslte_polar_code_get(par.K_r, par.E_r)
     THEN [ret |-> SRSLTE_ERROR, set_ok |-> TRUE, ok |-> TRUE, bits |-> <<>>,
           llr |-> llr, par |-> par]
     ELSE [ret |-> IF n < par.C THEN SRSLTE_ERROR ELSE SRSLTE_SUCCESS,
           set_ok |-> TRUE,
           ok |-> DecCrcAllOk(neg, par, n),
           bits |-> DecPayload(neg, par, A, n),
           llr |-> neg, par |-> par]

(***************************************************************************)
(* uci_nr_encode, uci_nr_decode: the dispatch on A.                        *)
(***************************************************************************)
NoPar == [I_seg |-> 0, L |-> 0, C |-> 0, A_prime |-> 0, K_r |-> 0, E_r |-> 0]

uci_nr_encode(bits, A, mod, E_uci, fail_at) ==
  IF A = 1
  THEN uci_nr_encode_1bit(bits, mod, E_uci) @@ [class |-> "1bit", par |-> NoPar]
  ELSE IF A = 2
  THEN uci_nr_encode_2bit(bits, mod, E_uci) @@ [class |-> "2bit", par |-> NoPar]
  ELSE IF A <= SRSLTE_FEC_BLOCK_MAX_NOF_BITS
  THEN uci_nr_encode_3_11_bit(bits, A, E_uci) @@ [class |-> "block", par |-> NoPar]
  ELSE IF A < SRSLTE_UCI_NR_MAX_NOF_BITS
  THEN uci_nr_encode_11_1706_bit(bits, A, E_uci, fail_at) @@ [class |-> "polar"]
  ELSE [ret |-> SRSLTE_ERROR, o |-> <<>>, class |-> "none", par |-> NoPar]

\* in: what the caller and the primitives contribute to one decode call:
\* in.oob the memory behind the LLR buffer, in.corr the correlation the block
\* decoder returns, in.fail_at the block at which the polar decoder fails
uci_nr_decode(one_bit_thr, block_thr, A, mod, llr, E_uci, in) ==
  LET keep == [llr |-> llr, par |-> NoPar]
      sub == IF A = 1
             THEN uci_nr_decode_1_bit(one_bit_thr, mod, llr, E_uci) @@ keep @@ [class |-> "1bit"]
             ELSE IF A = 2
             THEN uci_nr_decode_2_bit(mod, llr, E_uci, in.oob) @@ keep @@ [class |-> "2bit"]
             ELSE IF A <= 11
             THEN uci_nr_decode_3_11_bit(block_thr, A, llr, E_uci, in.corr)
                    @@ keep @@ [class |-> "block"]
             ELSE IF A < SRSLTE_UCI_NR_MAX_NOF_BITS
             THEN uci_nr_decode_11_1706_bit(A, llr, E_uci, in.fail_at) @@ [class |-> "polar"]
             ELSE [ret |-> SRSLTE_SUCCESS, set_ok |-> FALSE, ok |-> FALSE, bits |-> <<>>,
                   class |-> "none"] @@ keep
  IN [sub EXCEPT !.ret = IF sub.ret < SRSLTE_SUCCESS THEN SRSLTE_ERROR ELSE SRSLTE_SUCCESS]

(***************************************************************************)
(* The inputs of a call.                                                   *)
(***************************************************************************)
\* The E the callers pass: srslte_uci_nr_pucch_format_2_3_4_E returns a
\* multiple of 16 (format 2), of 12 (format 3) or of 6 (format 4), and
\* srslte_uci_nr_pusch_ack_nof_bits a multiple of the modulation order.
CallerE(mod, S) == {e \in S : e % 6 = 0 \/ e % 16 = 0 \/ (mod # 0 /\ e % mod = 0)}

SmallE(mod) == CallerE(mod, 0..MaxSmallE)

\* payload lengths around the boundaries of the dispatch
ShortA == UNION {(b - ADelta)..(b + ADelta) : b \in {3, 12, 20, SRSLTE_UCI_NR_MAX_NOF_BITS}}

ShortE == {0, 16, 17, 48}

\* payload and rate-matched lengths around the segmentation thresholds
LongCalls ==
  {<<359, 1088>>, <<360, 1087>>, <<360, 1088>>, <<361, 1088>>, <<1012, 1087>>,
   <<1013, 0>>, <<1013, 1087>>, <<1013, 1088>>, <<1705, MaxLargeE>>,
   <<SRSLTE_UCI_NR_MAX_NOF_BITS, MaxLargeE>>}

\* the calls: payload length, modulation, rate-matched length
Calls ==
  {[A |-> A, mod |-> mod, E |-> E] : A \in {1, 2}, mod \in Modulations, E \in 0..MaxSmallE}
  \cup {[A |-> A, mod |-> 1, E |-> E] : A \in {0} \cup ShortA, E \in ShortE}
  \cup {[A |-> c[1], mod |-> 1, E |-> c[2]] : c \in LongCalls}

ValidCall(c) == IF c.A \in {1, 2} THEN c.E \in SmallE(c.mod) ELSE c.E \in CallerE(c.mod, {c.E})

Pattern(A, p) == [i \in 1..A |-> IF i % (p + 1) = 1 THEN 1 ELSE 0]

\* the payloads of A bits, each 0 or 1
Payloads(A) ==
  IF A = 0 THEN {<<>>}
  ELSE IF A = 1 THEN {<<0>>, <<1>>}
  ELSE IF A = 2 THEN {<<0, 0>>, <<0, 1>>, <<1, 0>>, <<1, 1>>}
  ELSE {Pattern(A, p) : p \in 1..NPat}

NoFail == -1

IsPolarA(A) == A > SRSLTE_FEC_BLOCK_MAX_NOF_BITS /\ A < SRSLTE_UCI_NR_MAX_NOF_BITS

\* the number of code blocks of a polar call
Blocks(A, E) == IF (A >= 360 /\ E >= 1088) \/ A >= 1013 THEN 2 ELSE 1

\* the block at which the polar encoder fails, if any
EncInputs(A, E) == IF IsPolarA(A) THEN {NoFail} \cup (0..(Blocks(A, E) - 1)) ELSE {NoFail}

DecInputs(A, E) ==
  IF A = 2 THEN {[oob |-> v, corr |-> 0, fail_at |-> NoFail] : v \in {-LMag, LMag}}
  ELSE IF A # 1 /\ A <= 11
  THEN {[oob |-> 0, corr |-> c, fail_at |-> NoFail] : c \in {-1, 0, 1}}
  ELSE IF IsPolarA(A)
  THEN {[oob |-> 0, corr |-> 0, fail_at |-> f] : f \in {NoFail} \cup (0..(Blocks(A, E) - 1))}
  ELSE {[oob |-> 0, corr |-> 0, fail_at |-> NoFail]}

\* LLR values of a received buffer that is no codeword
RawLlr == {INT8_MIN, 0, LMag}

\* the threshold arguments of srslte_uci_nr_init: 0 stands for a value
\* that is not normal
ThresholdArgs ==
  {[block |-> [num |-> 0, den |-> 1], one_bit |-> [num |-> 0, den |-> 1]],
   [block |-> [num |-> 3, den |-> 2], one_bit |-> [num |-> 1, den |-> 4]]}

\* a float is a fraction num/den; den = 0 stands for an infinity (num # 0) or
\* a NaN (num = 0)
isnormal(x) == x.num # 0 /\ x.den # 0

(***************************************************************************)
(* State.                                                                  *)
(***************************************************************************)
VARIABLES
  pc,                    \* "idle", "encoded", "rx", "done"; "seg" under SegSpec
  one_bit_threshold,     \* q->one_bit_threshold
  block_code_threshold,  \* q->block_code_threshold
  bit_sequence,          \* q->bit_sequence, the bytes written so far
  valid,                 \* value->valid of the caller
  call,                  \* A, modulation and E of the call
  a,                     \* the payload handed to the encoder
  o,                     \* the bytes the encoder wrote, from o[0] on
  enc,                   \* the encoder's return value, class and parameters
  llr,                   \* the caller's LLR buffer
  llr_src,               \* where the LLRs come from
  llr_in,                \* the LLR buffer as the decode call found it
  dec,                   \* the decoder's return value, class and parameters
  op,                    \* the entry point or helper last called, "none" before any
  cfg,                   \* the arguments of that call
  reply,                 \* what that call returned and wrote
  mem,                   \* the handle's pointer fields and the heap
  twin,                  \* a second handle with a history of its own
  tuner                  \* the channel tuner object, its monitor thread and its socket

codecVars == <<pc, one_bit_threshold, block_code_threshold, bit_sequence, valid, call, a, o,
               enc, llr, llr_src, llr_in, dec>>

entryVars == <<op, cfg, reply, mem, twin, tuner>>

vars == <<pc, one_bit_threshold, block_code_threshold, bit_sequence, valid, call, a, o,
          enc, llr, llr_src, llr_in, dec, op, cfg, reply, mem, twin, tuner>>

\* enc and dec before any call: fail_at and in are the inputs the primitives
\* contributed to the call
NoEnc == [ret |-> SRSLTE_SUCCESS, class |-> "none", par |-> NoPar, fail_at |-> NoFail]

NoDec ==
  [ret |-> SRSLTE_SUCCESS, class |-> "none", par |-> NoPar,
   in |-> [oob |-> 0, corr |-> 0, fail_at |-> NoFail]]

\* no entry point called, no second handle
EntryIdle ==
  /\ op = "none"
  /\ cfg = <<>>
  /\ reply = <<>>
  /\ mem = <<>>
  /\ twin = <<>>
  /\ tuner = <<>>

\* srslte_uci_nr_init: the thresholds; the buffers are allocated, not written
Init ==
  /\ EntryIdle
  /\ pc = "idle"
  /\ \E args \in ThresholdArgs :
       /\ block_code_threshold =
            IF isnormal(args.block) THEN args.block ELSE DefaultThreshold
       /\ one_bit_threshold =
            IF isnormal(args.one_bit) THEN args.one_bit ELSE DefaultThreshold
  /\ bit_sequence = <<>>
  /\ valid \in BOOLEAN
  /\ call = [A |-> 0, mod |-> 0, E |-> 0]
  /\ a = <<>>
  /\ o = <<>>
  /\ enc = NoEnc
  /\ llr = <<>>
  /\ llr_src = "none"
  /\ llr_in = <<>>
  /\ dec = NoDec

\* The payload is packed into q->bit_sequence (uci_nr_pack_ack_sr) and
\* uci_nr_encode runs on it.
Encode ==
  /\ UNCHANGED entryVars
  /\ pc = "idle"
  /\ \E c \in Calls : \E payload \in Payloads(c.A) : \E fail_at \in EncInputs(c.A, c.E) :
       LET packed == WritePrefix(bit_sequence, payload)
           res == uci_nr_encode(packed, c.A, c.mod, c.E, fail_at)
       IN /\ ValidCall(c)
          /\ call' = c
          /\ a' = payload
          /\ bit_sequence' = packed
          /\ o' = res.o
          /\ enc' = [ret |-> res.ret, class |-> res.class, par |-> res.par,
                      fail_at |-> fail_at]
  /\ pc' = "encoded"
  /\ UNCHANGED <<one_bit_threshold, block_code_threshold, valid, llr, llr_src, llr_in, dec>>

\* the bit a byte of the encoder's output is sent as: a repetition repeats
\* the bit before it, a placeholder is sent as 1
SentBit(out, i) ==
  IF out[i] = UCI_BIT_REPETITION THEN out[i - 1]
  ELSE IF out[i] = UCI_BIT_PLACEHOLDER THEN 1
  ELSE out[i]

\* the noise-free LLR of a bit: under "pos1" a positive LLR stands for bit 1,
\* under "pos0" for bit 0
BitLlr(b, conv) == IF (b = 1) = (conv = "pos1") THEN LMag ELSE -LMag

\* The noise-free channel: the E bytes of the caller's output buffer become
\* the E LLRs; a byte the encoder did not write holds whatever it held.
Channel ==
  /\ UNCHANGED entryVars
  /\ pc = "encoded"
  /\ enc.ret >= SRSLTE_SUCCESS
  /\ \E conv \in {"pos1", "pos0"} :
     \E stale \in (IF Len(o) < call.E THEN {0, 1} ELSE {0}) :
       LET written == Len(o)
       IN /\ llr' = [i \in 1..call.E |->
                       BitLlr(IF i <= written THEN SentBit(o, i) ELSE stale, conv)]
          /\ llr_src' = conv
  /\ pc' = "rx"
  /\ UNCHANGED <<one_bit_threshold, block_code_threshold, bit_sequence, valid, call, a, o,
                 enc, llr_in, dec>>

\* A received buffer that is no codeword: E equal LLRs.
Receive ==
  /\ UNCHANGED entryVars
  /\ pc = "idle"
  /\ \E c \in Calls : \E v \in RawLlr :
       /\ ValidCall(c)
       /\ call' = c
       /\ llr' = [i \in 1..c.E |-> v]
  /\ llr_src' = "raw"
  /\ pc' = "rx"
  /\ UNCHANGED <<one_bit_threshold, block_code_threshold, bit_sequence, valid, a, o, enc,
                 llr_in, dec>>

\* uci_nr_decode on the LLR buffer.
Decode ==
  /\ UNCHANGED entryVars
  /\ pc = "rx"
  /\ \E in \in DecInputs(call.A, call.E) :
       LET res == uci_nr_decode(one_bit_threshold, block_code_threshold, call.A, call.mod,
                                llr, call.E, in)
       IN /\ bit_sequence' = WritePrefix(bit_sequence, res.bits)
          /\ valid' = IF res.set_ok THEN res.ok ELSE valid
          /\ llr' = res.llr
          /\ dec' = [ret |-> res.ret, class |-> res.class, par |-> res.par, in |-> in]
  /\ llr_in' = llr
  /\ pc' = "done"
  /\ UNCHANGED <<one_bit_threshold, block_code_threshold, call, a, o, enc, llr_src>>

Next == Encode \/ Channel \/ Receive \/ Decode

Spec == Init /\ [][Next]_vars

(***************************************************************************)
(* The segmentation and CRC parameters as a function of (A, E_uci): the    *)
(* polar encoder and the polar decoder each compute them on entry.         *)
(***************************************************************************)
SegA == 0..SRSLTE_UCI_NR_MAX_NOF_BITS

SegE == (0..EDelta) \cup ((1088 - EDelta)..(1088 + EDelta))

Segment ==
  /\ UNCHANGED entryVars
  /\ pc = "idle"
  /\ \E A \in SegA : \E E \in SegE :
       /\ call' = [A |-> A, mod |-> 1, E |-> E]
       /\ enc' = [enc EXCEPT !.class = "polar", !.par = EncPolarParams(A, E)]
       /\ dec' = [dec EXCEPT !.class = "polar", !.par = DecPolarParams(A, E)]
  /\ pc' = "seg"
  /\ UNCHANGED <<one_bit_threshold, block_code_threshold, bit_sequence, valid, a, o, llr,
                 llr_src, llr_in>>

SegNext == Segment

SegSpec == Init /\ [][SegNext]_vars

(***************************************************************************)
(* The entry points and their helpers, one call on a fresh handle.         *)
(***************************************************************************)
\* a handle after srslte_uci_nr_init with default thresholds, no call made
CodecIdle ==
  /\ pc = "idle"
  /\ block_code_threshold = DefaultThreshold
  /\ one_bit_threshold = DefaultThreshold
  /\ bit_sequence = <<>>
  /\ valid = FALSE
  /\ call = [A |-> 0, mod |-> 0, E |-> 0]
  /\ a = <<>>
  /\ o = <<>>
  /\ enc = NoEnc
  /\ llr = <<>>
  /\ llr_src = "none"
  /\ llr_in = <<>>
  /\ dec = NoDec

EntryInit == CodecIdle /\ EntryIdle

\* srslte_pucch_nr_format_t by its number; 5 stands for any other value
PucchFormats == 0..5

\* a PUCCH resource, or the null pointer
PucchResources ==
  {[null |-> TRUE]} \cup
  [null : {FALSE}, format : PucchFormats, nof_symbols : 1..MaxSym, nof_prb : 1..MaxPrb,
   enable_pi_bpsk : BOOLEAN, occ_lenth : 0..MaxOcc]

\* Variant: Format 2 halved under pi/2-BPSK as Format 3 is.
PucchEFormat2Halved(resource) ==
  IF resource.null THEN SRSLTE_ERROR_INVALID_INPUTS
  ELSE CASE resource.format = 2 ->
              IF ~resource.enable_pi_bpsk
              THEN 16 * resource.nof_symbols * resource.nof_prb
              ELSE 8 * resource.nof_symbols * resource.nof_prb
         [] resource.format = 3 ->
              IF ~resource.enable_pi_bpsk
              THEN 24 * resource.nof_symbols * resource.nof_prb
              ELSE 12 * resource.nof_symbols * resource.nof_prb
         [] resource.format = 4 ->
              IF resource.occ_lenth # 1 /\ resource.occ_lenth # 2 THEN SRSLTE_ERROR
              ELSE IF ~resource.enable_pi_bpsk
              THEN (24 * resource.nof_symbols) \div resource.occ_lenth
              ELSE (12 * resource.nof_symbols) \div resource.occ_lenth
         [] OTHER -> SRSLTE_ERROR

\* srslte_uci_nr_pucch_format_2_3_4_E
srslte_uci_nr_pucch_format_2_3_4_E(resource) ==
  IF resource.null THEN SRSLTE_ERROR_INVALID_INPUTS
  ELSE CASE resource.format = 2 -> 16 * resource.nof_symbols * resource.nof_prb
         [] resource.format = 3 ->
              IF ~resource.enable_pi_bpsk
              THEN 24 * resource.nof_symbols * resource.nof_prb
              ELSE 12 * resource.nof_symbols * resource.nof_prb
         [] resource.format = 4 ->
              IF resource.occ_lenth # 1 /\ resource.occ_lenth # 2 THEN SRSLTE_ERROR
              ELSE IF ~resource.enable_pi_bpsk
              THEN (24 * resource.nof_symbols) \div resource.occ_lenth
              ELSE (12 * resource.nof_symbols) \div resource.occ_lenth
         [] OTHER -> SRSLTE_ERROR

\* uci_nr_pucch_E_uci
uci_nr_pucch_E_uci(E_tot) == E_tot

\* the two sizing steps of srslte_uci_nr_encode_pucch / srslte_uci_nr_decode_pucch
PucchE ==
  /\ op = "none"
  /\ \E resource \in PucchResources :
       LET E_tot == srslte_uci_nr_pucch_format_2_3_4_E(resource)
       IN /\ cfg' = resource
          /\ reply' = [E_tot |-> E_tot,
                       E_uci |-> IF E_tot < SRSLTE_SUCCESS THEN SRSLTE_ERROR
                                 ELSE uci_nr_pucch_E_uci(E_tot)]
  /\ op' = "pucch_E"
  /\ UNCHANGED <<mem, twin, tuner>>
  /\ UNCHANGED codecVars

\* the bit strings of length n
RECURSIVE BitStrings(_)
BitStrings(n) ==
  IF n = 0 THEN {<<>>} ELSE {b \o <<x>> : b \in BitStrings(n - 1), x \in {0, 1}}

\* a UCI configuration as the PUCCH path reads it: o_csi is what
\* srslte_csi_part1_nof_bits returns for cfg->csi, cfg->nof_csi
PucchCfgs == [o_ack : 0..MaxAck, o_sr : 0..MaxSr, o_csi : 0..MaxCsi]

\* the UCI values of a configuration
UciValues(c) ==
  [ack : BitStrings(c.o_ack), sr : 0..(2^c.o_sr - 1), csi : BitStrings(c.o_csi)]

\* srslte_csi_part1_pack: the report as o_csi bits, an error if they do not fit
srslte_csi_part1_pack(o_csi, csi, max_len) ==
  IF o_csi > max_len THEN [ret |-> SRSLTE_ERROR, bits |-> <<>>]
  ELSE [ret |-> o_csi, bits |-> csi]

\* srslte_csi_part1_unpack: the report of o_csi bits read from index first on
srslte_csi_part1_unpack(o_csi, sequence, first, max_len) ==
  IF o_csi > max_len THEN [ret |-> SRSLTE_ERROR, csi |-> <<>>]
  ELSE [ret |-> o_csi, csi |-> SubSeq(sequence, first + 1, first + o_csi)]

\* srslte_bit_unpack and srslte_bit_pack move the bit pointer past the field
BitsAfter(first, nof_bits) == first + nof_bits

\* uci_nr_pack_ack_sr
uci_nr_pack_ack_sr(c, value, sequence) ==
  LET ack == SubSeq(value.ack, 1, c.o_ack)
      sr == srslte_bit_unpack(value.sr, c.o_sr)
  IN [ret |-> c.o_ack + c.o_sr, seq |-> WritePrefix(sequence, ack \o sr)]

\* Variant: the SR field read ahead of the ACK bits.
UnpackSrFirst(c, sequence) ==
  [ret |-> c.o_ack + c.o_sr,
   value |-> [ack |-> SubSeq(sequence, c.o_sr + 1, c.o_sr + c.o_ack),
              sr |-> srslte_bit_pack(SubSeq(sequence, 1, c.o_sr), c.o_sr),
              csi |-> <<>>]]

\* uci_nr_unpack_ack_sr
uci_nr_unpack_ack_sr(c, sequence) ==
  LET A == c.o_ack
  IN [ret |-> A + c.o_sr,
      value |-> [ack |-> SubSeq(sequence, 1, c.o_ack),
                 sr |-> srslte_bit_pack(SubSeq(sequence, A + 1, A + c.o_sr), c.o_sr),
                 csi |-> <<>>]]

\* uci_nr_pack_ack_sr_csi
uci_nr_pack_ack_sr_csi(c, value, sequence) ==
  LET ack == SubSeq(value.ack, 1, c.o_ack)
      sr == srslte_bit_unpack(value.sr, c.o_sr)
      bits == BitsAfter(c.o_ack, c.o_sr)
      A == c.o_ack + c.o_sr
      csi == srslte_csi_part1_pack(c.o_csi, value.csi, SRSLTE_UCI_NR_MAX_NOF_BITS - A)
      head == WritePrefix(sequence, ack \o sr)
  IN IF csi.ret < SRSLTE_SUCCESS
     THEN [ret |-> SRSLTE_ERROR, seq |-> head]
     ELSE [ret |-> A + csi.ret,
           seq |-> WritePrefix(head, SubSeq(head, 1, bits) \o csi.bits)]

\* uci_nr_unpack_ack_sr_csi
uci_nr_unpack_ack_sr_csi(c, sequence) ==
  LET A == c.o_ack
      bits == BitsAfter(A, c.o_sr)
      csi == srslte_csi_part1_unpack(c.o_csi, sequence, bits,
                                     SRSLTE_UCI_NR_MAX_NOF_BITS - (A + c.o_sr))
  IN [ret |-> IF csi.ret < SRSLTE_SUCCESS THEN SRSLTE_ERROR ELSE A + c.o_sr,
      value |-> [ack |-> SubSeq(sequence, 1, c.o_ack),
                 sr |-> srslte_bit_pack(SubSeq(sequence, A + 1, A + c.o_sr), c.o_sr),
                 csi |-> csi.csi]]

\* Variant: the width of the HARQ-ACK/SR layout without the SR field.
WidthWithoutSr(c) ==
  IF c.o_csi = 0 THEN c.o_ack
  ELSE IF c.o_ack = 0 /\ c.o_sr = 0 THEN c.o_csi
  ELSE SRSLTE_ERROR

\* uci_nr_A
uci_nr_A(c) ==
  IF c.o_csi = 0 THEN c.o_ack + c.o_sr
  ELSE IF c.o_ack = 0 /\ c.o_sr = 0 THEN c.o_csi
  ELSE SRSLTE_ERROR

\* uci_nr_pack_pucch
uci_nr_pack_pucch(c, value, sequence) ==
  IF c.o_csi = 0 THEN uci_nr_pack_ack_sr(c, value, sequence)
  ELSE IF c.o_ack = 0 /\ c.o_sr = 0
  THEN LET csi == srslte_csi_part1_pack(c.o_csi, value.csi, SRSLTE_UCI_NR_MAX_NOF_BITS)
       IN [ret |-> csi.ret, seq |-> WritePrefix(sequence, csi.bits)]
  ELSE uci_nr_pack_ack_sr_csi(c, value, sequence)

NoValue == [ack |-> <<>>, sr |-> 0, csi |-> <<>>]

\* Variant: the CSI-only layout unpacked like the others.
UnpackCsiOnlyToo(c, sequence) ==
  IF c.o_csi = 0 THEN uci_nr_unpack_ack_sr(c, sequence)
  ELSE uci_nr_unpack_ack_sr_csi(c, sequence)

\* uci_nr_unpack_pucch
uci_nr_unpack_pucch(c, sequence) ==
  IF c.o_csi = 0 THEN uci_nr_unpack_ack_sr(c, sequence)
  ELSE IF c.o_ack = 0 /\ c.o_sr = 0 THEN [ret |-> SRSLTE_ERROR, value |-> NoValue]
  ELSE uci_nr_unpack_ack_sr_csi(c, sequence)

\* srslte_uci_nr_total_bits of a configuration that is not null
srslte_uci_nr_total_bits(c) == c.o_ack + c.o_sr + c.o_csi

\* uci_nr_pack_pucch on a value, then uci_nr_unpack_pucch on the sequence it
\* wrote, with the width queries of the same configuration
PackUnpack ==
  /\ op = "none"
  /\ \E c \in PucchCfgs : \E value \in UciValues(c) :
       LET packed == uci_nr_pack_pucch(c, value, bit_sequence)
           unpacked == uci_nr_unpack_pucch(c, packed.seq)
       IN /\ cfg' = c @@ [value |-> value]
          /\ bit_sequence' = packed.seq
          /\ reply' = [pack |-> packed.ret, unpack |-> unpacked.ret,
                       value |-> unpacked.value, A |-> uci_nr_A(c),
                       total_bits |-> srslte_uci_nr_total_bits(c)]
  /\ op' = "pack_unpack"
  /\ UNCHANGED <<mem, twin, tuner>>
  /\ UNCHANGED <<pc, one_bit_threshold, block_code_threshold, valid, call, a, o, enc, llr,
                 llr_src, llr_in, dec>>

\* the PUCCH resources of the decode calls: null, a format without a size,
\* Format 4 and Format 2 of one symbol
DecodeResources ==
  {r \in PucchResources :
     r.null \/ (/\ r.nof_symbols = 1 /\ r.nof_prb = 1 /\ r.enable_pi_bpsk
                /\ r.occ_lenth = 2 /\ r.format \in {1, 2, 4})}

\* the LLR buffers of the decode calls: E values of one sign
DecodeLlrs(E) == {[i \in 1..E |-> v] : v \in {-LMag, LMag}}

\* srslte_uci_nr_decode_pucch
DecodePucch ==
  /\ op = "none"
  /\ \E resource \in DecodeResources : \E c \in PucchCfgs : \E mod \in {1, 2} :
       LET E_tot == srslte_uci_nr_pucch_format_2_3_4_E(resource)
           E_uci == uci_nr_pucch_E_uci(E_tot)
           A == uci_nr_A(c)
           sized == E_tot >= SRSLTE_SUCCESS /\ E_uci >= SRSLTE_SUCCESS /\ A >= SRSLTE_SUCCESS
       IN \E buf \in (IF sized THEN DecodeLlrs(E_uci) ELSE {<<>>}) :
          \E in \in (IF sized THEN DecInputs(A, E_uci) ELSE {NoDec.in}) :
            LET res == uci_nr_decode(one_bit_threshold, block_code_threshold, A, mod, buf,
                                     E_uci, in)
                seq == WritePrefix(bit_sequence, res.bits)
                unpacked == uci_nr_unpack_pucch(c, seq)
                decoded == sized /\ res.ret >= SRSLTE_SUCCESS
            IN /\ cfg' = [resource |-> resource, uci |-> c, mod |-> mod, llr |-> buf, in |-> in]
               /\ bit_sequence' = IF sized THEN seq ELSE bit_sequence
               /\ valid' = IF sized /\ res.set_ok THEN res.ok ELSE valid
               /\ llr' = IF sized THEN res.llr ELSE buf
               /\ reply' = [ret |-> IF decoded /\ unpacked.ret >= SRSLTE_SUCCESS
                                    THEN SRSLTE_SUCCESS ELSE SRSLTE_ERROR,
                            E_uci |-> IF E_tot < SRSLTE_SUCCESS THEN SRSLTE_ERROR ELSE E_uci,
                            A |-> A,
                            decoded |-> decoded,
                            value |-> IF decoded THEN unpacked.value ELSE NoValue]
  /\ op' = "decode_pucch"
  /\ UNCHANGED <<mem, twin, tuner>>
  /\ UNCHANGED <<pc, one_bit_threshold, block_code_threshold, call, a, o, enc, llr_src,
                 llr_in, dec>>

(***************************************************************************)
(* The PUSCH rate-matching sizers.  The float operands are fractions of    *)
(* small integers and powers of two, on which the float operations of the  *)
(* code are exact.                                                         *)
(***************************************************************************)
SRSLTE_NSYMB_PER_SLOT_NR == 14

\* a fraction with a positive denominator
Frac(n, d) == IF d < 0 THEN [num |-> -n, den |-> -d] ELSE [num |-> n, den |-> d]

ceilf(x) == Frac(-((-x.num) \div x.den), 1)

SRSLTE_MIN(x, y) == IF x.num * y.den < y.num * x.den THEN x ELSE y

FracMinus(x, n) == Frac(x.num - n * x.den, x.den)

\* (int) of a float: the fraction is dropped
IntCast(x) == IF x.num >= 0 THEN x.num \div x.den ELSE -((-x.num) \div x.den)

\* cfg->R: a normal rate, its negative, zero, the infinities and a NaN
Rates ==
  {[num |-> 1, den |-> 2], [num |-> -1, den |-> 2], [num |-> 0, den |-> 1],
   [num |-> 1, den |-> 0], [num |-> -1, den |-> 0], [num |-> 0, den |-> 0]}

\* srslte_uci_nr_pusch_cfg_t, or the null pointer; every symbol carries
\* the same number of UCI subcarriers
PuschCfgs ==
  {[null |-> TRUE]} \cup
  [null : {FALSE}, modulation : {1, 2}, nof_layers : 0..MaxLayers, K_sum : {0, 8},
   R : Rates, alpha : {[num |-> 1, den |-> 2], [num |-> 1, den |-> 1]},
   beta_harq_ack_offset : {[num |-> 2, den |-> 1]},
   beta_csi1_offset : {[num |-> 5, den |-> 2]},
   M_uci_sc : {[l \in 0..(SRSLTE_NSYMB_PER_SLOT_NR - 1) |-> m] : m \in {0, MaxSc}},
   l0 : {0, 3}, csi_part2_present : BOOLEAN]

\* the sum of M_uci_sc[l] over first <= l < SRSLTE_NSYMB_PER_SLOT_NR
RECURSIVE SumSc(_, _)
SumSc(M_uci_sc, first) ==
  IF first >= SRSLTE_NSYMB_PER_SLOT_NR THEN 0
  ELSE M_uci_sc[first] + SumSc(M_uci_sc, first + 1)

\* uci_nr_pusch_Q_prime_ack
uci_nr_pusch_Q_prime_ack(p, O_ack) ==
  IF p.null THEN SRSLTE_ERROR_INVALID_INPUTS
  ELSE LET L_ack == srslte_uci_nr_crc_len(O_ack)
           Qm == p.modulation
           M_uci_sum == SumSc(p.M_uci_sc, 0)
           M_uci_l0_sum == SumSc(p.M_uci_sc, p.l0)
           cap == Frac(p.alpha.num * M_uci_l0_sum, p.alpha.den)
       IN IF ~isnormal(p.R) THEN SRSLTE_ERROR
          ELSE IF p.K_sum = 0
          THEN IntCast(SRSLTE_MIN(
                 ceilf(Frac((O_ack + L_ack) * p.beta_harq_ack_offset.num * p.R.den,
                            p.beta_harq_ack_offset.den * Qm * p.R.num)), cap))
          ELSE IntCast(SRSLTE_MIN(
                 ceilf(Frac((O_ack + L_ack) * p.beta_harq_ack_offset.num * M_uci_sum,
                            p.beta_harq_ack_offset.den * p.K_sum)), cap))

\* srslte_uci_nr_pusch_ack_nof_bits
srslte_uci_nr_pusch_ack_nof_bits(p, O_ack) ==
  IF p.null THEN SRSLTE_ERROR_INVALID_INPUTS
  ELSE IF p.nof_layers = 0 THEN SRSLTE_ERROR
  ELSE LET Q_ack_prime == uci_nr_pusch_Q_prime_ack(p, O_ack)
       IN IF Q_ack_prime < SRSLTE_SUCCESS THEN Q_ack_prime
          ELSE Q_ack_prime * p.nof_layers * p.modulation

Max(x, y) == IF x > y THEN x ELSE y

\* uci_nr_pusch_Q_prime_csi1
uci_nr_pusch_Q_prime_csi1(p, O_csi1, O_ack) ==
  IF p.null THEN SRSLTE_ERROR_INVALID_INPUTS
  ELSE LET L_ack == srslte_uci_nr_crc_len(O_csi1)
           Qm == p.modulation
           Q_prime_ack == uci_nr_pusch_Q_prime_ack(p, Max(2, O_ack))
           M_uci_sum == SumSc(p.M_uci_sc, 0)
       IN IF Q_prime_ack < SRSLTE_ERROR THEN SRSLTE_ERROR
          ELSE IF ~isnormal(p.R) THEN SRSLTE_ERROR
          ELSE IF p.K_sum = 0
          THEN IF p.csi_part2_present
               THEN IntCast(SRSLTE_MIN(
                      ceilf(Frac((O_csi1 + L_ack) * p.beta_csi1_offset.num * p.R.den,
                                 p.beta_csi1_offset.den * Qm * p.R.num)),
                      FracMinus(Frac(p.alpha.num * M_uci_sum, p.alpha.den), Q_prime_ack)))
               ELSE M_uci_sum - Q_prime_ack
          ELSE IntCast(SRSLTE_MIN(
                 ceilf(Frac((O_csi1 + L_ack) * p.beta_csi1_offset.num * M_uci_sum,
                            p.beta_csi1_offset.den * p.K_sum)),
                 FracMinus(ceilf(Frac(p.alpha.num * M_uci_sum, p.alpha.den)), Q_prime_ack)))

\* srslte_uci_nr_pusch_csi1_nof_bits: c.o_csi is what srslte_csi_part1_nof_bits
\* returns
srslte_uci_nr_pusch_csi1_nof_bits(c) ==
  LET O_csi1 == c.o_csi
      O_ack == Max(2, c.o_ack)
      Q_csi1_prime == uci_nr_pusch_Q_prime_csi1(c.pusch, O_csi1, O_ack)
  IN IF Q_csi1_prime < SRSLTE_SUCCESS THEN Q_csi1_prime
     ELSE Q_csi1_prime * c.pusch.nof_layers * c.pusch.modulation

\* the two sizers on one configuration
PuschSizers ==
  /\ op = "none"
  /\ \E p \in PuschCfgs : \E o_ack \in 0..MaxAck : \E o_csi \in 0..MaxCsi :
       /\ cfg' = [pusch |-> p, o_ack |-> o_ack, o_csi |-> o_csi]
       /\ reply' =
            [ack |-> srslte_uci_nr_pusch_ack_nof_bits(p, o_ack),
             csi1 |-> IF p.null THEN SRSLTE_ERROR_INVALID_INPUTS
                      ELSE srslte_uci_nr_pusch_csi1_nof_bits(
                             [pusch |-> p, o_ack |-> o_ack, o_csi |-> o_csi])]
  /\ op' = "pusch_nof_bits"
  /\ UNCHANGED <<mem, twin, tuner>>
  /\ UNCHANGED codecVars

(***************************************************************************)
(* UCI on PUSCH: HARQ-ACK and CSI part 1, encoders and decoders.           *)
(***************************************************************************)
\* the first n bytes of a buffer of which Len(seq) bytes were ever written;
\* fill is what the bytes never written hold
ReadPrefix(seq, n, fill) == [i \in 1..n |-> IF i <= Len(seq) THEN seq[i] ELSE fill]

\* Variant: the pad rule applied whatever K_sum is.
AckPadRuleAnyKsum(c) == c.nof_csi > 1 /\ ~c.has_csi_part2 /\ c.o_ack < 2

\* the pad rule of the HARQ-ACK entry points
AckPadRule(c) ==
  c.pusch.K_sum = 0 /\ c.nof_csi > 1 /\ ~c.has_csi_part2 /\ c.o_ack < 2

\* What an encoder entry point returns and leaves behind, given the rate
\* matched length E_uci of the sizer and the result res of uci_nr_encode;
\* stage is how far the call came: "none" (nothing to multiplex), "size"
\* (the sizer failed) or "coder"
PuschEncoded(nothing, A, E_uci, seq, res) ==
  IF nothing
  THEN [ret |-> SRSLTE_SUCCESS, stage |-> "none", A |-> A, E_uci |-> 0, seq |-> seq,
        o |-> <<>>]
  ELSE IF E_uci < SRSLTE_SUCCESS
  THEN [ret |-> SRSLTE_ERROR, stage |-> "size", A |-> A, E_uci |-> E_uci, seq |-> seq,
        o |-> <<>>]
  ELSE [ret |-> res.ret, stage |-> "coder", A |-> A, E_uci |-> E_uci, seq |-> seq,
        o |-> res.o]

\* the sizer's result handed to uci_nr_encode
PuschEncodeSized(nothing, A, E_uci, seq, mod, fail_at) ==
  PuschEncoded(nothing, A, E_uci, seq, uci_nr_encode(seq, A, mod, E_uci, fail_at))

\* srslte_uci_nr_encode_pusch_ack
srslte_uci_nr_encode_pusch_ack(c, value, sequence, fail_at) ==
  LET pad == AckPadRule(c)
      A == IF pad THEN 2 ELSE c.o_ack
      seq == IF pad
             THEN WritePrefix(sequence, <<IF c.o_ack = 0 THEN 0 ELSE value.ack[1], 0>>)
             ELSE WritePrefix(sequence, SubSeq(value.ack, 1, c.o_ack))
  IN PuschEncodeSized(~pad /\ A = 0, A, srslte_uci_nr_pusch_ack_nof_bits(c.pusch, A), seq,
                      c.pusch.modulation, fail_at)

\* srslte_uci_nr_encode_pusch_csi1
srslte_uci_nr_encode_pusch_csi1(c, value, sequence, fail_at) ==
  LET packed == srslte_csi_part1_pack(c.o_csi, value.csi, SRSLTE_UCI_NR_MAX_NOF_BITS)
      seq == WritePrefix(sequence, packed.bits)
  IN IF packed.ret < SRSLTE_SUCCESS
     THEN [ret |-> SRSLTE_ERROR, stage |-> "none", A |-> packed.ret, E_uci |-> 0,
           seq |-> seq, o |-> <<>>]
     ELSE PuschEncodeSized(packed.ret = 0, packed.ret, srslte_uci_nr_pusch_csi1_nof_bits(c),
                           seq, c.pusch.modulation, fail_at)

\* What a decoder entry point returns and leaves behind, given E_uci of the
\* sizer and the result res of uci_nr_decode; bits are the first A bytes of
\* q->bit_sequence after a successful uci_nr_decode
PuschDecoded(A, E_uci, res, sequence, buf, fill) ==
  LET seq == WritePrefix(sequence, res.bits)
  IN IF E_uci < SRSLTE_SUCCESS
     THEN [ret |-> SRSLTE_ERROR, stage |-> "size", A |-> A, E_uci |-> E_uci,
           seq |-> sequence, set_ok |-> FALSE, ok |-> FALSE, llr |-> buf, bits |-> <<>>]
     ELSE [ret |-> res.ret, stage |-> "coder", A |-> A, E_uci |-> E_uci, seq |-> seq,
           set_ok |-> res.set_ok, ok |-> res.ok, llr |-> res.llr,
           bits |-> IF res.ret < SRSLTE_SUCCESS THEN <<>> ELSE ReadPrefix(seq, A, fill)]

\* the sizer's result handed to uci_nr_decode on a handle with thresholds thr
PuschDecodeSized(thr, A, E_uci, mod, buf, sequence, in, fill) ==
  PuschDecoded(A, E_uci, uci_nr_decode(thr.one_bit, thr.block, A, mod, buf, E_uci, in),
               sequence, buf, fill)

\* the value an entry point unpacks from the decoded bits: the HARQ-ACK
\* bytes are copied, the CSI report is unpacked and may be refused
PuschUnpacked(r, kind, o_csi) ==
  LET csi == srslte_csi_part1_unpack(o_csi, r.bits, 0, r.A)
      failed == r.ret < SRSLTE_SUCCESS \/ (kind = "csi1" /\ csi.ret < SRSLTE_SUCCESS)
  IN [ret |-> IF failed THEN SRSLTE_ERROR ELSE SRSLTE_SUCCESS,
      stage |-> r.stage, A |-> r.A, E_uci |-> r.E_uci, seq |-> r.seq,
      set_ok |-> r.set_ok, ok |-> r.ok, llr |-> r.llr,
      value |-> IF failed THEN NoValue
                ELSE IF kind = "ack" THEN [NoValue EXCEPT !.ack = r.bits]
                ELSE [NoValue EXCEPT !.csi = csi.csi]]

\* srslte_uci_nr_decode_pusch_ack
srslte_uci_nr_decode_pusch_ack(thr, c, buf, sequence, in, fill) ==
  LET A == IF AckPadRule(c) THEN 2 ELSE c.o_ack
  IN PuschUnpacked(
       PuschDecodeSized(thr, A, srslte_uci_nr_pusch_ack_nof_bits(c.pusch, A),
                        c.pusch.modulation, buf, sequence, in, fill),
       "ack", 0)

\* srslte_uci_nr_decode_pusch_csi1
srslte_uci_nr_decode_pusch_csi1(thr, c, buf, sequence, in, fill) ==
  PuschUnpacked(
    PuschDecodeSized(thr, c.o_csi, srslte_uci_nr_pusch_csi1_nof_bits(c),
                     c.pusch.modulation, buf, sequence, in, fill),
    "csi1", c.o_csi)

\* the UCI configurations of the PUSCH calls: kind names the entry points,
\* HARQ-ACK or CSI part 1
PuschUciCfgs ==
  {c \in [kind : {"ack", "csi1"}, o_ack : 0..MaxAck, o_csi : 0..MaxCsi, nof_csi : 0..2,
          has_csi_part2 : BOOLEAN,
          pusch : {p \in PuschCfgs \ {[null |-> TRUE]} :
                     /\ p.alpha.den = 2 /\ p.l0 = 0 /\ p.nof_layers < 2
                     /\ p.R.den # 0 /\ p.R.num >= 0}] :
     /\ c.kind = "ack" => (c.o_csi = 0 /\ ~c.pusch.csi_part2_present)
     /\ c.kind = "csi1" => (c.nof_csi = 1 /\ ~c.has_csi_part2 /\ c.o_ack \in {0, MaxAck})}

\* srslte_uci_nr_encode_pusch_ack or srslte_uci_nr_encode_pusch_csi1
EncodePusch ==
  /\ op = "none"
  /\ \E c \in PuschUciCfgs : \E value \in UciValues(c @@ [o_sr |-> 0]) :
     \E res \in {IF c.kind = "ack"
                 THEN srslte_uci_nr_encode_pusch_ack(c, value, bit_sequence, NoFail)
                 ELSE srslte_uci_nr_encode_pusch_csi1(c, value, bit_sequence, NoFail)} :
       /\ cfg' = c @@ [value |-> value]
       /\ bit_sequence' = res.seq
       /\ o' = res.o
       /\ reply' = [enc |-> [ret |-> res.ret, stage |-> res.stage, A |-> res.A,
                             E_uci |-> res.E_uci]]
  /\ op' = "encode_pusch"
  /\ UNCHANGED <<mem, twin, tuner>>
  /\ UNCHANGED <<pc, one_bit_threshold, block_code_threshold, valid, call, a, enc, llr,
                 llr_src, llr_in, dec>>

\* the effective A and the E_uci of the decoder entry point of a configuration
DecodePuschSizes(c) ==
  IF c.kind = "ack"
  THEN [A |-> IF AckPadRule(c) THEN 2 ELSE c.o_ack,
        E |-> srslte_uci_nr_pusch_ack_nof_bits(c.pusch, IF AckPadRule(c) THEN 2 ELSE c.o_ack)]
  ELSE [A |-> c.o_csi, E |-> srslte_uci_nr_pusch_csi1_nof_bits(c)]

\* srslte_uci_nr_decode_pusch_ack or srslte_uci_nr_decode_pusch_csi1 on the
\* configuration of the encoder call: the LLRs are the noise-free ones of the
\* encoder's output, a positive LLR for a bit 1, or, where the encoder wrote
\* none, as many equal LLRs as the sizer of the decoder asks for
DecodePusch ==
  /\ op = "encode_pusch"
  /\ \E size \in {DecodePuschSizes(cfg)} :
     \E buf \in (IF reply.enc.stage = "coder" /\ reply.enc.ret >= SRSLTE_SUCCESS
                 THEN {[i \in 1..Len(o) |-> BitLlr(SentBit(o, i), "pos1")]}
                 ELSE IF size.E >= 0 THEN DecodeLlrs(size.E) ELSE {<<>>}) :
     \E in \in DecInputs(size.A, Max(size.E, 0)) :
     \E thr \in {[one_bit |-> one_bit_threshold, block |-> block_code_threshold]} :
     \E res \in {IF cfg.kind = "ack"
                 THEN srslte_uci_nr_decode_pusch_ack(thr, cfg, buf, bit_sequence, in, 0)
                 ELSE srslte_uci_nr_decode_pusch_csi1(thr, cfg, buf, bit_sequence, in, 0)} :
       /\ bit_sequence' = res.seq
       /\ valid' = IF res.set_ok THEN res.ok ELSE valid
       /\ llr' = res.llr
       /\ llr_in' = buf
       /\ reply' = [enc |-> reply.enc,
                    dec |-> [ret |-> res.ret, stage |-> res.stage, A |-> res.A,
                             E_uci |-> res.E_uci, value |-> res.value]]
  /\ op' = "decode_pusch"
  /\ UNCHANGED <<cfg, mem, twin, tuner>>
  /\ UNCHANGED <<pc, one_bit_threshold, block_code_threshold, call, a, o, enc, llr_src, dec>>

EntryNext ==
  PucchE \/ PackUnpack \/ DecodePucch \/ PuschSizers \/ EncodePusch \/ DecodePusch

EntrySpec == EntryInit /\ [][EntryNext]_vars

(***************************************************************************)
(* srslte_uci_nr_init and srslte_uci_nr_free: the four scratch buffers of  *)
(* the handle.  mem.ptr holds q->bit_sequence, q->c, q->allocated, q->d:   *)
(* 0 is NULL, a positive number the block malloc returned, Indeterminate   *)
(* the content of handle memory nobody wrote.  mem.rel[b] counts the       *)
(* free() calls on block b, mem.wild those on a pointer malloc never       *)
(* returned.                                                               *)
(***************************************************************************)
Indeterminate == -1

\* the steps of srslte_uci_nr_init that can fail: 1..7 the polar and CRC
\* objects, 8..11 the allocation of bit_sequence, c, allocated, d
InitSteps == 1..11

\* the handle as the caller provides it: zeroed, or not written at all
FreshHandles ==
  {[ptr |-> <<v, v, v, v>>, rel |-> <<>>, wild |-> 0, calls |-> 0, prev |-> "none",
    released |-> 0] : v \in {0, Indeterminate}}

\* the buffer pointers after srslte_uci_nr_init failing at step fail_at
\* (NoFail: at none): nothing is released on the way out
InitPtr(m, fail_at) ==
  LET done == IF fail_at = NoFail THEN 4 ELSE IF fail_at < 8 THEN 0 ELSE fail_at - 8
      tried == IF fail_at = NoFail \/ fail_at < 8 THEN done ELSE done + 1
  IN [i \in 1..4 |-> IF i <= done THEN Len(m.rel) + i
                     ELSE IF i <= tried THEN 0
                     ELSE m.ptr[i]]

\* srslte_uci_nr_init
InitCall ==
  /\ mem.calls < MaxCalls
  /\ \E fail_at \in {NoFail} \cup InitSteps : \E args \in ThresholdArgs :
       LET ptr == InitPtr(mem, fail_at)
           got == Cardinality({i \in 1..4 : ptr[i] > Len(mem.rel)})
       IN /\ mem' = [mem EXCEPT !.ptr = ptr,
                                !.rel = mem.rel \o [b \in 1..got |-> 0],
                                !.calls = mem.calls + 1,
                                !.prev = "init",
                                !.released = 0]
          /\ cfg' = [fail_at |-> fail_at, args |-> args]
          /\ reply' = [ret |-> IF fail_at = NoFail THEN SRSLTE_SUCCESS ELSE SRSLTE_ERROR]
          /\ block_code_threshold' =
               IF fail_at # NoFail THEN block_code_threshold
               ELSE IF isnormal(args.block) THEN args.block ELSE DefaultThreshold
          /\ one_bit_threshold' =
               IF fail_at # NoFail THEN one_bit_threshold
               ELSE IF isnormal(args.one_bit) THEN args.one_bit ELSE DefaultThreshold
  /\ op' = "init"
  /\ UNCHANGED <<pc, bit_sequence, valid, call, a, o, enc, llr, llr_src, llr_in, dec, twin, tuner>>

\* srslte_uci_nr_free: an indeterminate pointer compares equal to NULL or
\* not (reads_null), the others are freed unless NULL; the handle is zeroed
FreeCall ==
  /\ mem.calls < MaxCalls
  /\ \E reads_null \in [1..4 -> BOOLEAN] :
       LET freed == {i \in 1..4 : mem.ptr[i] > 0}
           wild == {i \in 1..4 : mem.ptr[i] = Indeterminate /\ ~reads_null[i]}
       IN /\ \A i \in 1..4 : mem.ptr[i] # Indeterminate => reads_null[i]
          /\ mem' = [mem EXCEPT
                       !.ptr = <<0, 0, 0, 0>>,
                       !.rel = [b \in 1..Len(mem.rel) |->
                                  mem.rel[b] + Cardinality({i \in freed : mem.ptr[i] = b})],
                       !.wild = mem.wild + Cardinality(wild),
                       !.calls = mem.calls + 1,
                       !.prev = op,
                       !.released = Cardinality(freed) + Cardinality(wild)]
          /\ cfg' = [reads_null |-> reads_null]
  /\ reply' = [ret |-> SRSLTE_SUCCESS]
  /\ op' = "free"
  /\ UNCHANGED <<twin, tuner>>
  /\ UNCHANGED codecVars

LifeInit ==
  /\ CodecIdle
  /\ op = "none" /\ cfg = <<>> /\ reply = <<>> /\ twin = <<>> /\ tuner = <<>>
  /\ mem \in FreshHandles

LifeNext == InitCall \/ FreeCall

LifeSpec == LifeInit /\ [][LifeNext]_vars

(***************************************************************************)
(* Reuse of a handle: two handles with a history each, then the same       *)
(* decode call on both.  bit_sequence and valid belong to the first        *)
(* handle and its caller, twin.bit_sequence and twin.valid to the second.  *)
(***************************************************************************)
\* the HARQ-ACK configurations of the calls: one PUSCH configuration
ReuseCfgs(acks) ==
  {c \in [kind : {"ack"}, o_ack : acks, o_csi : {0}, nof_csi : {0}, has_csi_part2 : {FALSE},
          pusch : PuschCfgs \ {[null |-> TRUE]}] :
     /\ c.pusch.modulation = 1 /\ c.pusch.nof_layers = 1 /\ c.pusch.K_sum = 0
     /\ c.pusch.R = [num |-> 1, den |-> 2] /\ c.pusch.alpha.den = 2
     /\ c.pusch.M_uci_sc[0] = MaxSc /\ c.pusch.l0 = 0 /\ ~c.pusch.csi_part2_present}

\* what a handle went through before the final call: nothing, or a call of
\* srslte_uci_nr_encode_pusch_ack
EarlierCalls ==
  {[kind |-> "none"]} \cup
  {[kind |-> "encode_pusch_ack", c |-> c, ack |-> ack] :
     c \in ReuseCfgs({2, SRSLTE_UCI_NR_MAX_NOF_BITS}),
     ack \in Payloads(SRSLTE_UCI_NR_MAX_NOF_BITS) \cup Payloads(2)}

\* q->bit_sequence after an earlier call
AfterEarlier(e, sequence) ==
  IF e.kind = "none" THEN sequence
  ELSE srslte_uci_nr_encode_pusch_ack(e.c, [NoValue EXCEPT !.ack = e.ack], sequence,
                                      NoFail).seq

\* the history of each handle
EarlierCall ==
  /\ op = "none"
  /\ \E e1 \in EarlierCalls : \E e2 \in EarlierCalls :
       /\ e1.kind # "none" => Len(e1.ack) = e1.c.o_ack
       /\ e2.kind # "none" => Len(e2.ack) = e2.c.o_ack
       /\ cfg' = [first |-> e1, second |-> e2]
       /\ bit_sequence' = AfterEarlier(e1, bit_sequence)
       /\ twin' = [twin EXCEPT !.bit_sequence = AfterEarlier(e2, twin.bit_sequence)]
  /\ op' = "earlier"
  /\ UNCHANGED <<reply, mem, tuner>>
  /\ UNCHANGED <<pc, one_bit_threshold, block_code_threshold, valid, call, a, o, enc, llr,
                 llr_src, llr_in, dec>>

\* srslte_uci_nr_decode_pusch_ack, the same call on both handles: the same
\* configuration, LLRs and value->valid; fill is what the bytes of a buffer
\* hold that nobody wrote since malloc, the same on both handles or not
FinalDecode ==
  /\ op = "earlier"
  /\ \E c \in ReuseCfgs({1, 2, 3, 12, SRSLTE_UCI_NR_MAX_NOF_BITS}) :
     \E fill \in {<<0, 0>>, <<0, 1>>} : \E was_valid \in BOOLEAN :
     \E E \in {srslte_uci_nr_pusch_ack_nof_bits(c.pusch, c.o_ack)} :
     \E buf \in DecodeLlrs(E) : \E in \in DecInputs(c.o_ack, E) :
     \E thr \in {[one_bit |-> one_bit_threshold, block |-> block_code_threshold]} :
     \E one \in {srslte_uci_nr_decode_pusch_ack(thr, c, buf, bit_sequence, in, fill[1])} :
     \E two \in {srslte_uci_nr_decode_pusch_ack(thr, c, buf, twin.bit_sequence, in,
                                                fill[2])} :
       /\ cfg' = [history |-> cfg, c |-> c, llr |-> buf, in |-> in, was_valid |-> was_valid]
       /\ bit_sequence' = one.seq
       /\ valid' = IF one.set_ok THEN one.ok ELSE was_valid
       /\ llr' = one.llr
       /\ twin' = [bit_sequence |-> two.seq,
                   valid |-> IF two.set_ok THEN two.ok ELSE was_valid]
       /\ reply' = [one |-> [ret |-> one.ret, value |-> one.value],
                    two |-> [ret |-> two.ret, value |-> two.value]]
  /\ op' = "final"
  /\ UNCHANGED <<mem, tuner>>
  /\ UNCHANGED <<pc, one_bit_threshold, block_code_threshold, call, a, o, enc, llr_src,
                 llr_in, dec>>

ReuseInit ==
  /\ CodecIdle
  /\ op = "none" /\ cfg = <<>> /\ reply = <<>> /\ mem = <<>> /\ tuner = <<>>
  /\ twin = [bit_sequence |-> <<>>, valid |-> FALSE]

ReuseNext == EarlierCall \/ FinalDecode

ReuseSpec == ReuseInit /\ [][ReuseNext]_vars

(***************************************************************************)
(* The channel tuner: srsran_channel_tuner_t, its monitor thread and       *)
(* srsran_channel_tuner_execute.  A float is modelled by an integer.       *)
(* tuner.sock is the std::ifstream of the object: is_open, the failbit,    *)
(* the eofbit, and buf, the tokens written to the socket and not yet       *)
(* extracted.                                                              *)
(* tuner.new_gain is the thread's local: set is FALSE while nobody wrote   *)
(* it.  tuner.thread is the thread's position, tuner.ok the outcome of     *)
(* `if (sock)` in its last poll.  attenuation (the constructor's           *)
(* argument), seen (the gains extracted so far) and written (the tokens    *)
(* the peer wrote) record the history.                                     *)
(***************************************************************************)

\* how many tokens the peer writes to the socket
MaxTokens == 3

\* numeric_limits<float>::max(), what an extraction stores on overflow
FLT_MAX == 100

\* the gains the peer writes
TunerGains == {-1, 0, 1, 2}

\* the constructor's attenuation argument, 1.0f by default
Attenuations == {1, 5}

\* what one `sock >> new_gain` finds: a number, with white space after it
\* (sep) or not, text that is no number, or a number too large for a float
Tokens ==
  {[kind |-> "num", value |-> g, sep |-> b] : g \in TunerGains, b \in BOOLEAN}
    \cup {[kind |-> "text", value |-> 0, sep |-> TRUE],
          [kind |-> "overflow", value |-> FLT_MAX, sep |-> TRUE]}

\* the values an unwritten float can be read as
IndeterminateGains == {-1, 0, 1}

\* the samples handed to srsran_channel_tuner_execute
SampleBuffers ==
  {<<[re |-> 1, im |-> -2]>>, <<[re |-> 3, im |-> 0], [re |-> -1, im |-> 1]>>}

\* srsran_vec_sc_prod_cfc: z[i] = x[i] * h for i < len
srsran_vec_sc_prod_cfc(x, h, len) ==
  [i \in 1..len |-> [re |-> x[i].re * h, im |-> x[i].im * h]]

\* sock >> new_gain.  The sentry fails on a stream that is not good or has
\* nothing left: failbit, and the variable is not touched.  A number is
\* extracted and stored; one that ends where the data ends sets eofbit, which
\* is no failure.  Text that is no number stays in the stream: failbit,
\* and 0 is stored.  A number out of range is consumed: failbit, and the
\* largest float is stored.
SockExtract(sock, new_gain) ==
  IF ~sock.is_open \/ sock.fail \/ sock.eof \/ sock.buf = <<>>
    THEN [sock |-> [sock EXCEPT !.fail = TRUE, !.eof = TRUE], new_gain |-> new_gain]
  ELSE
    LET tok == Head(sock.buf) IN
    CASE tok.kind = "num" ->
           [sock |-> [sock EXCEPT !.buf = Tail(sock.buf),
                                  !.eof = ~tok.sep /\ Tail(sock.buf) = <<>>],
            new_gain |-> [set |-> TRUE, value |-> tok.value]]
      [] tok.kind = "text" ->
           [sock |-> [sock EXCEPT !.fail = TRUE],
            new_gain |-> [set |-> TRUE, value |-> 0]]
      [] tok.kind = "overflow" ->
           [sock |-> [sock EXCEPT !.fail = TRUE, !.buf = Tail(sock.buf)],
            new_gain |-> [set |-> TRUE, value |-> tok.value]]

\* the same poll with the store moved out of the `if (sock)`
TunerPolledStoreAlways(t) ==
  LET x == SockExtract(t.sock, t.new_gain)
      good == ~x.sock.fail
  IN [t EXCEPT !.new_gain = x.new_gain,
               !.ok = good,
               !.sock = IF good THEN x.sock ELSE [x.sock EXCEPT !.fail = FALSE, !.eof = FALSE],
               !.tuner_attenuation = IF x.new_gain.set THEN x.new_gain.value ELSE @,
               !.seen = IF good THEN @ \cup {x.new_gain.value} ELSE @,
               !.thread = "test"]

\* one poll of the monitor thread: the extraction, then the store of the gain
\* if the stream is good and sock.clear() if it is not
TunerPolled(t) ==
  LET x == SockExtract(t.sock, t.new_gain)
      good == ~x.sock.fail
  IN [t EXCEPT !.new_gain = x.new_gain,
               !.ok = good,
               !.sock = IF good THEN x.sock ELSE [x.sock EXCEPT !.fail = FALSE, !.eof = FALSE],
               !.tuner_attenuation = IF good THEN x.new_gain.value ELSE @,
               !.seen = IF good THEN @ \cup {x.new_gain.value} ELSE @,
               !.thread = "test"]

\* the constructor: tuner_attenuation(attenuation), sock(domain_socket_name),
\* which may fail to open, and the monitor thread created at its first poll
TunerInit ==
  /\ CodecIdle
  /\ op = "none" /\ cfg = <<>> /\ reply = <<>> /\ mem = <<>> /\ twin = <<>>
  /\ \E attenuation \in Attenuations, is_open \in BOOLEAN :
       tuner = [attenuation |-> attenuation,
                tuner_attenuation |-> attenuation,
                sock |-> [is_open |-> is_open, fail |-> ~is_open, eof |-> FALSE, buf |-> <<>>],
                new_gain |-> [set |-> FALSE, value |-> 0],
                thread |-> "poll",
                ok |-> FALSE,
                seen |-> {},
                written |-> 0]

\* the body of the do loop up to the sleep
TunerPoll ==
  /\ tuner.thread = "poll"
  /\ tuner' = TunerPolled(tuner)
  /\ UNCHANGED <<op, cfg, reply, mem, twin>>
  /\ UNCHANGED codecVars

\* the sleep and `while (new_gain > 0)`: a new_gain nobody wrote reads as any
\* value
TunerLoopTest ==
  /\ tuner.thread = "test"
  /\ \E g \in (IF tuner.new_gain.set THEN {tuner.new_gain.value} ELSE IndeterminateGains) :
       tuner' = [tuner EXCEPT !.thread = IF g > 0 THEN "poll" ELSE "stopped"]
  /\ UNCHANGED <<op, cfg, reply, mem, twin>>
  /\ UNCHANGED codecVars

\* the peer writes one token to the socket
SocketWrite ==
  /\ tuner.sock.is_open
  /\ tuner.written < MaxTokens
  /\ \E tok \in Tokens :
       tuner' = [tuner EXCEPT !.sock.buf = Append(@, tok), !.written = @ + 1]
  /\ UNCHANGED <<op, cfg, reply, mem, twin>>
  /\ UNCHANGED codecVars

\* srsran_channel_tuner_execute, from any other thread: one atomic load of
\* q->tuner_attenuation, then the product
TunerExecute ==
  /\ \E x \in SampleBuffers :
       /\ cfg' = [in |-> x, nsamples |-> Len(x)]
       /\ reply' = [out |-> srsran_vec_sc_prod_cfc(x, tuner.tuner_attenuation, Len(x))]
  /\ op' = "tuner_execute"
  /\ UNCHANGED <<mem, twin, tuner>>
  /\ UNCHANGED codecVars

TunerNext == TunerPoll \/ TunerLoopTest \/ SocketWrite \/ TunerExecute

TunerSpec == TunerInit /\ [][TunerNext]_vars

(***************************************************************************)
(* Properties.                                                             *)
(***************************************************************************)
SupportedQm == {1, 2, 4, 6, 8}

\* the payload classes by length as the specification states them
PolarRange == 12..1706

\* the polar primitives of a call did not fail: the code exists for the
\* block size and no encoder or decoder run reported an error
PolarPrimitivesOk(A, E, fail_at) ==
  LET par == EncPolarParams(A, E)
  IN srslte_polar_code_get(par.K_r, par.E_r) /\ fail_at = NoFail

Sign(x) == IF x > 0 THEN 1 ELSE IF x < 0 THEN -1 ELSE 0

\* C1: round trip of the 1-bit class.  For every payload bit, every
\* supported modulation and every E >= 1, decoding the noise-free LLRs of
\* the 1-bit encoder's output (positive where the carried bit is 1, the sign
\* the decoder reads as 1) returns success, the payload bit and valid = true
\* under the default one_bit_threshold.
C1_RoundTrip1Bit ==
  (/\ pc = "done"
   /\ llr_src = "pos1"
   /\ call.A = 1
   /\ call.mod \in SupportedQm
   /\ call.E >= 1
   /\ one_bit_threshold = DefaultThreshold)
  => (dec.ret = SRSLTE_SUCCESS /\ valid /\ bit_sequence[1] = a[1])

\* the conclusion of the 2-bit round trip: success, the payload pair, valid,
\* and every LLR the decoder samples is assigned to the one of c0, c1, c2
\* the encoder emitted at the sampled position
RoundTrip2BitHolds ==
  /\ dec.ret = SRSLTE_SUCCESS
  /\ valid
  /\ SubSeq(bit_sequence, 1, 2) = a
  /\ LET E == call.E
         positions == [i \in 1..E |-> i]
         emitted == WhileEmit(Encode2Body(call.mod, 1, 2, 3), E)
     IN \A n \in 1..E :
          LET sampled == Decode2Corr(call.mod, positions, n, E + 1)
          IN \A k \in 1..3 :
               sampled[k] # 0 => (sampled[k] <= E /\ emitted[sampled[k]] = k)

C3_RoundTripPolar ==
  (/\ pc = "done"
   /\ llr_src = "pos1"
   /\ call.A \in PolarRange
   /\ PolarPrimitivesOk(call.A, call.E, enc.fail_at)
   /\ dec.in.fail_at = NoFail)
  => (dec.ret = SRSLTE_SUCCESS /\ valid /\ SubSeq(bit_sequence, 1, call.A) = a)

\* C4: length law.  A successful encode returns E and writes the output
\* positions 0..E-1 and only those.
C4_LengthLaw ==
  (pc = "encoded" /\ enc.ret >= SRSLTE_SUCCESS)
  => (enc.ret = call.E /\ Len(o) = call.E)

\* the coder the specification assigns to a payload length of 1..1706
SpecClass(A) ==
  IF A = 1 THEN "1bit"
  ELSE IF A = 2 THEN "2bit"
  ELSE IF A \in 3..11 THEN "block"
  ELSE "polar"

\* C5: class dispatch.  Encode and decode select the coder from A alone:
\* 1-bit for A = 1, 2-bit for A = 2, block for 3..11, polar for 12..1706
\* (1706 included); for A >= 1707 both calls return an error.
C5_ClassDispatch ==
  /\ (pc = "encoded" /\ call.A \in 1..1706) => enc.class = SpecClass(call.A)
  /\ (pc = "encoded" /\ call.A >= 1707) => enc.ret < SRSLTE_SUCCESS
  /\ (pc = "done" /\ call.A \in 1..1706) => dec.class = SpecClass(call.A)
  /\ (pc = "done" /\ call.A >= 1707) => dec.ret < SRSLTE_SUCCESS

\* C6: LLR sign inversion in the polar decoder.  When the decoder has run
\* its blocks, every input LLR of block 0 and, with two blocks, of block 1
\* has been replaced by a value of the opposite sign, -128 included.
C6_LlrSignInversion ==
  (/\ pc = "done"
   /\ dec.class = "polar"
   /\ srslte_polar_code_get(dec.par.K_r, dec.par.E_r)
   /\ dec.in.fail_at = NoFail)
  => \A i \in 1..(dec.par.C * dec.par.E_r) : Sign(llr[i]) = -Sign(llr_in[i])

\* the parameters as the specification states them, for one of the two
\* computations
SegmentationAsStated(par, A, E) ==
  /\ A <= 11 => par.L = 0
  /\ A \in PolarRange =>
       /\ par.L = (IF A <= 19 THEN 6 ELSE 11)
       /\ par.I_seg \in {0, 1}
       /\ (par.I_seg = 1) <=> ((A >= 360 /\ E >= 1088) \/ A >= 1013)
       /\ par.C = par.I_seg + 1
       \* A' = C * ceil(A / C): the least multiple of C that is at least A
       /\ par.A_prime % par.C = 0
       /\ par.A_prime >= A
       /\ par.A_prime - A < par.C
       /\ par.A_prime - A \in {0, 1}
       /\ par.K_r * par.C = par.A_prime + par.L * par.C
       \* E_r = floor(E / C)
       /\ par.E_r * par.C <= E
       /\ E < (par.E_r + 1) * par.C
       /\ (A = 360 /\ E = 1087) => par.C = 1
       /\ (A = 360 /\ E = 1088) => par.C = 2
       /\ (A = 1013 /\ E = 0) => par.C = 2

\* C7: segmentation and CRC parameters.  For every A in 12..1706 and every
\* E the polar encoder and the polar decoder both use L = 6 if A <= 19 else
\* 11 (0 for A <= 11), I_seg = 1 iff (A >= 360 and E >= 1088) or A >= 1013,
\* C = I_seg + 1, A' = C * ceil(A/C), K_r = A'/C + L, E_r = floor(E/C).
C7_SegmentationParams ==
  pc = "seg" =>
    /\ SegmentationAsStated(enc.par, call.A, call.E)
    /\ SegmentationAsStated(dec.par, call.A, call.E)

C7_Witness ==
  /\ pc = "seg"
  /\ call.A = 361
  /\ call.E = 1088
  /\ enc.par = [I_seg |-> 1, L |-> 11, C |-> 2, A_prime |-> 362, K_r |-> 192, E_r |-> 544]
  /\ dec.par = enc.par

\* the byte the specification places at output index i of the 1-bit class
Stated1Bit(Qm, i, c0) ==
  IF i % Qm = 0 THEN c0
  ELSE IF i % Qm = 1 THEN UCI_BIT_REPETITION
  ELSE UCI_BIT_PLACEHOLDER

\* the byte the specification places at output index i of the 2-bit class,
\* c the triple (c0, c1, c2): symbol i / Qm carries the pair of c that
\* follows the pair of the symbol before it
Stated2Bit(Qm, i, c) ==
  IF Qm \in {1, 2} THEN c[(i % 3) + 1]
  ELSE IF i % Qm >= 2 THEN UCI_BIT_PLACEHOLDER
  ELSE c[((2 * (i \div Qm) + (i % Qm)) % 3) + 1]

S1Sequence ==
  <<UCI_BIT_1, UCI_BIT_REPETITION, UCI_BIT_1, UCI_BIT_REPETITION,
    UCI_BIT_1, UCI_BIT_REPETITION, UCI_BIT_1, UCI_BIT_REPETITION>>

S2Sequence ==
  LET U0 == UCI_BIT_0
      U1 == UCI_BIT_1
      PH == UCI_BIT_PLACEHOLDER
  IN <<U1, U0, PH, PH, U1, U1, PH, PH, U0, U1, PH, PH,
       U1, U0, PH, PH, U1, U1, PH, PH, U0, U1, PH, PH>>

\* C8: placeholder invariance.  For every supported Qm and every output
\* index i < E the 1-bit encoder emits c0 where i mod Qm = 0, the repetition
\* mark where i mod Qm = 1 and the placeholder elsewhere; the 2-bit encoder
\* emits (c0,c1), (c2,c0), (c1,c2) in the first two positions of successive
\* symbols and placeholders in the others (c0, c1, c2 repeated for Qm 1 and
\* 2), c2 = a0 xor a1; scenarios S1 and S2 give the stated sequences.
C8_PlaceholderPattern ==
  (pc = "encoded" /\ call.A \in {1, 2} /\ call.mod \in SupportedQm) =>
    /\ Len(o) >= call.E
    /\ call.A = 1 =>
         \A i \in 0..(call.E - 1) : o[i + 1] = Stated1Bit(call.mod, i, a[1])
    /\ call.A = 2 =>
         \A i \in 0..(call.E - 1) :
           o[i + 1] = Stated2Bit(call.mod, i, <<a[1], a[2], (a[1] + a[2]) % 2>>)
    /\ (call = [A |-> 1, mod |-> 2, E |-> 8] /\ a = <<1>>) => SubSeq(o, 1, 8) = S1Sequence
    /\ (call = [A |-> 2, mod |-> 4, E |-> 24] /\ a = <<1, 0>>) => SubSeq(o, 1, 24) = S2Sequence

C8_Witness ==
  /\ pc = "encoded"
  /\ call = [A |-> 2, mod |-> 4, E |-> 24]
  /\ a = <<1, 0>>
  /\ enc.ret = 24
  /\ o = S2Sequence

\* C9: an all-zero LLR stream is an error in every payload class: a decode
\* call whose E >= 1 input LLRs are all 0 returns an error, and never
\* success with valid = true.
C9_AllZeroIsError ==
  (/\ pc = "done"
   /\ llr_src = "raw"
   /\ call.A \in 1..1706
   /\ call.E >= 1
   /\ \A i \in 1..call.E : llr_in[i] = 0)
  => (dec.ret < SRSLTE_SUCCESS /\ ~(dec.ret = SRSLTE_SUCCESS /\ valid))

\* the class decoder that ran did not fail on its input
ClassDecoderDidNotFail ==
  CASE dec.class \in {"1bit", "2bit"} -> call.mod \in SupportedQm
    [] dec.class = "block" ->
         /\ call.E >= 1
         /\ ~(call.A = 11 /\ call.E <= 16)
         /\ \E i \in 1..call.E : llr_in[i] # 0
    [] dec.class = "polar" ->
         srslte_polar_code_get(dec.par.K_r, dec.par.E_r) /\ dec.in.fail_at = NoFail
    [] OTHER -> FALSE

\* the payload is not rejected, by the test of its class
PayloadAccepted ==
  CASE dec.class = "1bit" ->
         \* Qm * corr / (E * sqrt(pwr)) above the threshold
         LET corr == Corr1(llr_in, call.E, call.mod, 0)
             pwr == Pwr1(llr_in, call.E, call.mod, 0)
             thr == one_bit_threshold
         IN /\ call.E > 0 /\ pwr > 0 /\ corr > 0
            /\ (call.mod * corr * thr.den) ^ 2 > ((thr.num * call.E) ^ 2) * pwr
    [] dec.class = "2bit" ->
         LET corr == Decode2Corr(call.mod, llr_in, call.E, dec.in.oob)
             c0 == IF corr[1] > 0 THEN 1 ELSE 0
             c1 == IF corr[2] > 0 THEN 1 ELSE 0
             c2 == IF corr[3] > 0 THEN 1 ELSE 0
         IN c2 = Xor(c0, c1)
    [] dec.class = "block" ->
         dec.in.corr * block_code_threshold.den > block_code_threshold.num
    [] dec.class = "polar" ->
         \A r \in 0..(dec.par.C - 1) : DecBlockCrcOk(llr, dec.par, r)
    [] OTHER -> FALSE

\* C10: rejection is reported through valid, not through the return code.
\* For every LLR input on which the class decoder does not fail, the decode
\* call returns success and sets valid to false exactly when the payload is
\* rejected by the test of its class, and to true otherwise.
C10_RejectionThroughValid ==
  (pc = "done" /\ ClassDecoderDidNotFail)
  => (dec.ret = SRSLTE_SUCCESS /\ (valid <=> PayloadAccepted))

C10_Witness ==
  /\ pc = "done"
  /\ dec.class = "polar"
  /\ dec.par.C = 2
  /\ ClassDecoderDidNotFail
  /\ dec.ret = SRSLTE_SUCCESS
  /\ ~valid
  /\ ~PayloadAccepted

\* C12: PUCCH E_tot.  Format 2 gives 16 * n_sym * n_prb whatever the
\* pi/2-BPSK flag; Format 3 gives 24 * n_sym * n_prb with the flag off and
\* 12 * n_sym * n_prb with it on; Format 4 with occ in {1, 2} gives
\* floor(24 * n_sym / occ) resp. floor(12 * n_sym / occ); Format 4 with any
\* other occ, any other format and a null resource give an error; Format 3
\* with 8 symbols and 1 PRB gives 192 and 96.
C12_PucchEtot ==
  op = "pucch_E" =>
    LET E == reply.E_tot
    IN IF cfg.null THEN E < 0
       ELSE LET n == cfg.nof_symbols
                prb == cfg.nof_prb
                k == IF cfg.enable_pi_bpsk THEN 12 ELSE 24
            IN /\ cfg.format = 2 => E = 16 * n * prb
               /\ cfg.format = 3 => E = k * n * prb
               /\ (cfg.format = 4 /\ cfg.occ_lenth \in {1, 2}) =>
                    /\ E * cfg.occ_lenth <= k * n
                    /\ k * n < (E + 1) * cfg.occ_lenth
               /\ (cfg.format = 4 /\ cfg.occ_lenth \notin {1, 2}) => E < 0
               /\ cfg.format \notin {2, 3, 4} => E < 0
               /\ (cfg.format = 3 /\ n = 8 /\ prb = 1) =>
                    E = (IF cfg.enable_pi_bpsk THEN 96 ELSE 192)

C12_Witness ==
  /\ op = "pucch_E"
  /\ ~cfg.null
  /\ cfg.format = 4
  /\ cfg.occ_lenth = 2
  /\ cfg.nof_symbols = 3
  /\ cfg.enable_pi_bpsk
  /\ reply.E_tot = 18

\* the three PUCCH layouts of a configuration
AckSrOnly(c) == c.o_csi = 0

CsiOnly(c) == c.o_csi > 0 /\ c.o_ack = 0 /\ c.o_sr = 0

MixedLayout(c) == c.o_csi > 0 /\ (c.o_ack > 0 \/ c.o_sr > 0)

\* C13: pack/unpack inverse on PUCCH.  Without CSI, pack places the o_ack
\* ACK bits at positions 0..o_ack-1, then sr as an MSB-first o_sr-bit
\* field, and returns o_ack + o_sr; unpack of that sequence returns the same
\* ack and sr.  In the mixed layout the CSI part 1 bits start at position
\* o_ack + o_sr in pack and in unpack.
C13_PackUnpackInverse ==
  op = "pack_unpack" =>
    LET first == cfg.o_ack + cfg.o_sr
    IN /\ AckSrOnly(cfg) =>
            /\ reply.pack = cfg.o_ack + cfg.o_sr
            /\ Len(bit_sequence) = cfg.o_ack + cfg.o_sr
            /\ \A i \in 1..cfg.o_ack : bit_sequence[i] = cfg.value.ack[i]
            /\ \A j \in 1..cfg.o_sr :
                 bit_sequence[cfg.o_ack + j] = (cfg.value.sr \div 2^(cfg.o_sr - j)) % 2
            /\ reply.unpack = cfg.o_ack + cfg.o_sr
            /\ reply.value.ack = cfg.value.ack
            /\ reply.value.sr = cfg.value.sr
       /\ MixedLayout(cfg) =>
            /\ \A i \in 1..cfg.o_csi : bit_sequence[first + i] = cfg.value.csi[i]
            /\ reply.value.csi = cfg.value.csi
            /\ reply.value.ack = cfg.value.ack
            /\ reply.value.sr = cfg.value.sr

C13_Witness ==
  /\ op = "pack_unpack"
  /\ cfg.o_ack = 2 /\ cfg.o_sr = 2 /\ cfg.o_csi = 0
  /\ cfg.value.ack = <<0, 1>>
  /\ cfg.value.sr = 2
  /\ bit_sequence = <<0, 1, 1, 0>>
  /\ reply.value = [ack |-> <<0, 1>>, sr |-> 2, csi |-> <<>>]

\* C14 (as stated): in each of the three PUCCH layouts A(cfg) equals the
\* length pack_pucch returns and equals total_bits(cfg).
C14_WidthQueryEveryLayout ==
  op = "pack_unpack" => (reply.A = reply.pack /\ reply.A = reply.total_bits)

\* C14 (amended): in the HARQ-ACK/SR-only and the CSI-only layout A(cfg)
\* equals the length pack_pucch returns and total_bits(cfg) =
\* o_ack + o_sr + CSI part 1 bits; in the mixed layout pack_pucch returns
\* total_bits(cfg) and A(cfg) returns an error.
C14_WidthQuery ==
  op = "pack_unpack" =>
    /\ reply.total_bits = cfg.o_ack + cfg.o_sr + cfg.o_csi
    /\ reply.pack = reply.total_bits
    /\ (AckSrOnly(cfg) \/ CsiOnly(cfg)) => reply.A = reply.total_bits
    /\ MixedLayout(cfg) => reply.A < SRSLTE_SUCCESS

C14_Witness ==
  /\ op = "pack_unpack"
  /\ cfg.o_ack = 1 /\ cfg.o_sr = 1 /\ cfg.o_csi = 2
  /\ reply.pack = 4
  /\ reply.total_bits = 4
  /\ reply.A = SRSLTE_ERROR

\* C15: srslte_uci_nr_decode_pucch returns an error for every CSI-only
\* configuration and for every mixed HARQ-ACK/SR + CSI configuration, the
\* mixed one before any decoding; the HARQ-ACK/SR-only layout is decoded:
\* the call succeeds exactly when the sizes and uci_nr_decode do.
C15_UnsupportedPucchDecode ==
  op = "decode_pucch" =>
    /\ (CsiOnly(cfg.uci) \/ MixedLayout(cfg.uci)) => reply.ret < SRSLTE_SUCCESS
    /\ MixedLayout(cfg.uci) => (~reply.decoded /\ bit_sequence = <<>>)
    /\ AckSrOnly(cfg.uci) => (reply.ret = SRSLTE_SUCCESS <=> reply.decoded)

C15_Witness ==
  /\ op = "decode_pucch"
  /\ CsiOnly(cfg.uci)
  /\ reply.decoded
  /\ reply.ret = SRSLTE_ERROR

\* a HARQ-ACK/SR-only configuration decoded with success
C15_SupportedLayoutDecodes ==
  /\ op = "decode_pucch"
  /\ cfg.uci = [o_ack |-> 1, o_sr |-> 1, o_csi |-> 0]
  /\ reply.ret = SRSLTE_SUCCESS
  /\ reply.value.ack = <<1>>

\* cfg->R is a finite positive number
FinitePositive(R) == R.den # 0 /\ R.num > 0

\* C19: srslte_uci_nr_pusch_ack_nof_bits and
\* srslte_uci_nr_pusch_csi1_nof_bits each return a negative result whenever
\* R is zero, negative, infinite or a NaN, or nof_layers = 0; otherwise the
\* result is Q' * nof_layers * Qm.
C19_SizerInputValidation ==
  (op = "pusch_nof_bits" /\ ~cfg.pusch.null) =>
    LET p == cfg.pusch
        Q_ack == uci_nr_pusch_Q_prime_ack(p, cfg.o_ack)
        Q_csi1 == uci_nr_pusch_Q_prime_csi1(p, cfg.o_csi, Max(2, cfg.o_ack))
    IN IF ~FinitePositive(p.R) \/ p.nof_layers = 0
       THEN reply.ack < SRSLTE_SUCCESS /\ reply.csi1 < SRSLTE_SUCCESS
       ELSE /\ reply.ack = Q_ack * p.nof_layers * p.modulation
            /\ reply.csi1 = Q_csi1 * p.nof_layers * p.modulation

\* the part of C19 that holds: the HARQ-ACK sizer refuses nof_layers = 0,
\* both sizers refuse a rate that is zero, infinite or a NaN, and on a finite
\* positive rate with layers both return Q' * nof_layers * Qm
C19_SizerValidationInCode ==
  (op = "pusch_nof_bits" /\ ~cfg.pusch.null) =>
    LET p == cfg.pusch
        Q_ack == uci_nr_pusch_Q_prime_ack(p, cfg.o_ack)
        Q_csi1 == uci_nr_pusch_Q_prime_csi1(p, cfg.o_csi, Max(2, cfg.o_ack))
    IN /\ p.nof_layers = 0 => reply.ack < SRSLTE_SUCCESS
       /\ ~isnormal(p.R) => (reply.ack < SRSLTE_SUCCESS /\ reply.csi1 < SRSLTE_SUCCESS)
       /\ (FinitePositive(p.R) /\ p.nof_layers # 0) =>
            /\ Q_ack >= 0 /\ Q_csi1 >= 0
            /\ reply.ack = Q_ack * p.nof_layers * p.modulation
            /\ reply.csi1 = Q_csi1 * p.nof_layers * p.modulation

\* a negative rate sized as a bit count
C19_NegativeRateSized ==
  /\ op = "pusch_nof_bits" /\ ~cfg.pusch.null
  /\ cfg.pusch.R = [num |-> -1, den |-> 2]
  /\ cfg.pusch.K_sum = 8
  /\ cfg.pusch.nof_layers = 1
  /\ cfg.o_ack = 1
  /\ reply.ack > 0

\* no layers sized as zero CSI part 1 bits
C19_NoLayersSized ==
  /\ op = "pusch_nof_bits" /\ ~cfg.pusch.null
  /\ cfg.pusch.R = [num |-> 1, den |-> 2]
  /\ cfg.pusch.nof_layers = 0
  /\ reply.csi1 = 0

\* C11: srslte_uci_nr_encode_pusch_ack uses the effective A = 2 with the
\* payload (o_ack = 0 ? 0 : ack[0]), 0 exactly when K_sum = 0, nof_csi > 1,
\* CSI part 2 is absent and o_ack < 2; otherwise it uses A = o_ack with the
\* ack bits in order, and when that A is 0 it returns success and writes no
\* output bit.
C11_PuschAckEntryRule ==
  (op = "encode_pusch" /\ cfg.kind = "ack") =>
    IF cfg.pusch.K_sum = 0 /\ cfg.nof_csi > 1 /\ ~cfg.has_csi_part2 /\ cfg.o_ack < 2
    THEN /\ reply.enc.A = 2
         /\ bit_sequence = <<IF cfg.o_ack = 0 THEN 0 ELSE cfg.value.ack[1], 0>>
    ELSE /\ reply.enc.A = cfg.o_ack
         /\ bit_sequence = cfg.value.ack
         /\ cfg.o_ack = 0 => (reply.enc.ret = SRSLTE_SUCCESS /\ o = <<>>)

C11_Witness ==
  /\ op = "encode_pusch" /\ cfg.kind = "ack"
  /\ cfg.pusch.K_sum = 0 /\ cfg.nof_csi = 2 /\ ~cfg.has_csi_part2
  /\ cfg.o_ack = 1 /\ cfg.value.ack = <<1>>
  /\ reply.enc.A = 2
  /\ bit_sequence = <<1, 0>>
  /\ reply.enc.stage = "coder" /\ reply.enc.ret >= SRSLTE_SUCCESS
  /\ Len(o) > 0

\* C20: for every configuration on which srslte_uci_nr_encode_pusch_ack
\* (resp. srslte_uci_nr_encode_pusch_csi1) returns success,
\* srslte_uci_nr_decode_pusch_ack (resp. srslte_uci_nr_decode_pusch_csi1) on
\* the same configuration uses the same effective A and the same E_uci and
\* returns success too, also where the effective A is 0 and the encoder
\* returned success with nothing to multiplex.
C20_PuschDecodersMirror ==
  (op = "decode_pusch" /\ reply.enc.ret >= SRSLTE_SUCCESS) =>
    /\ reply.dec.A = reply.enc.A
    /\ reply.enc.stage = "coder" => reply.dec.E_uci = reply.enc.E_uci
    /\ reply.dec.ret = SRSLTE_SUCCESS

\* the part of C20 that holds: the decoders use the encoders' effective A,
\* and where the encoder ran its coder on at least one output bit the
\* decoder uses the same E_uci, returns success and reports the payload
C20_MirrorWhereEncoded ==
  (op = "decode_pusch" /\ reply.enc.ret >= SRSLTE_SUCCESS) =>
    /\ reply.dec.A = reply.enc.A
    /\ (reply.enc.stage = "coder" /\ reply.enc.E_uci > 0) =>
         /\ reply.dec.E_uci = reply.enc.E_uci
         /\ reply.dec.ret = SRSLTE_SUCCESS
         /\ cfg.kind = "csi1" => reply.dec.value.csi = cfg.value.csi
         /\ (cfg.kind = "ack" /\ ~AckPadRule(cfg)) => reply.dec.value.ack = cfg.value.ack

\* nothing to multiplex: the HARQ-ACK encoder succeeds, the decoder fails
C20_NoAckDecodeFails ==
  /\ op = "decode_pusch" /\ cfg.kind = "ack"
  /\ cfg.o_ack = 0 /\ reply.enc.A = 0
  /\ cfg.pusch.nof_layers = 1 /\ cfg.pusch.R.num > 0 /\ cfg.pusch.M_uci_sc[0] > 0
  /\ reply.enc.ret = SRSLTE_SUCCESS
  /\ reply.dec.E_uci = 0
  /\ reply.dec.ret = SRSLTE_ERROR

\* no CSI bits and a rate of zero: the CSI part 1 encoder succeeds, the
\* decoder fails in the sizer
C20_NoCsiDecodeFails ==
  /\ op = "decode_pusch" /\ cfg.kind = "csi1"
  /\ cfg.o_csi = 0 /\ cfg.pusch.R.num = 0
  /\ reply.enc.ret = SRSLTE_SUCCESS
  /\ reply.dec.stage = "size"
  /\ reply.dec.ret = SRSLTE_ERROR

\* C18: for every configuration with more than 1706 payload bits the
\* encoder returns an error and has written no position at index 1706 or
\* above of the payload buffer q->bit_sequence, which holds
\* SRSLTE_UCI_NR_MAX_NOF_BITS bytes.
C18_PayloadBoundVerified ==
  (pc = "encoded" /\ call.A > SRSLTE_UCI_NR_MAX_NOF_BITS) =>
    /\ enc.ret < SRSLTE_SUCCESS
    /\ Len(bit_sequence) <= SRSLTE_UCI_NR_MAX_NOF_BITS

\* the part of C18 that holds: the call returns an error and writes no
\* output bit
C18_ErrorAfterPacking ==
  (pc = "encoded" /\ call.A > SRSLTE_UCI_NR_MAX_NOF_BITS) =>
    (enc.ret = SRSLTE_ERROR /\ o = <<>>)

\* 1707 payload bits packed: the byte at index 1706 is written
C18_WrittenPastTheBuffer ==
  /\ pc = "encoded"
  /\ call.A = SRSLTE_UCI_NR_MAX_NOF_BITS + 1
  /\ Len(bit_sequence) = SRSLTE_UCI_NR_MAX_NOF_BITS + 1
  /\ bit_sequence[SRSLTE_UCI_NR_MAX_NOF_BITS + 1] = a[SRSLTE_UCI_NR_MAX_NOF_BITS + 1]
  /\ enc.ret = SRSLTE_ERROR

\* C17: over any sequence of srslte_uci_nr_init (succeeding, or failing at
\* any step) and srslte_uci_nr_free calls on a handle, each scratch buffer
\* that was acquired is released exactly once: free never releases a buffer
\* init did not acquire, a second free releases nothing, and no acquired
\* buffer stays unreleased after free.
C17_ScratchBufferLifecycle ==
  /\ \A b \in 1..Len(mem.rel) : mem.rel[b] <= 1
  /\ mem.wild = 0
  /\ (op = "free" /\ mem.prev = "free") => mem.released = 0
  /\ op = "free" => \A b \in 1..Len(mem.rel) : mem.rel[b] = 1

\* the part of C17 that holds: no buffer is released twice, a free right
\* after a free releases nothing, and one init, whatever its outcome,
\* followed by a free that found no indeterminate pointer to release leaves
\* nothing acquired
C17_LifecycleInCode ==
  /\ \A b \in 1..Len(mem.rel) : mem.rel[b] <= 1
  /\ (op = "free" /\ mem.prev = "free") => mem.released = 0
  /\ (op = "free" /\ mem.prev = "init" /\ mem.calls = 2 /\ mem.wild = 0) =>
       \A b \in 1..Len(mem.rel) : mem.rel[b] = 1

\* init, init, free: the four buffers of the first init are never released
C17_BuffersLeaked ==
  /\ op = "free" /\ mem.calls = 3
  /\ Len(mem.rel) = 8
  /\ mem.wild = 0
  /\ \A b \in 1..4 : mem.rel[b] = 0
  /\ \A b \in 5..8 : mem.rel[b] = 1

\* a handle that was not zeroed, an init that fails before its allocations,
\* free: free() is called on pointers malloc never returned
C17_WildFree ==
  /\ op = "free" /\ mem.calls = 2 /\ mem.prev = "init"
  /\ Len(mem.rel) = 0
  /\ mem.wild = 4

\* C16: the handle carries no state from one call to the next: two call
\* sequences that end with the same call (same configuration, same LLRs)
\* end with the same return code, decoded value and valid flag; a decode
\* reports no payload bit left over from an earlier call.
C16_NoStateBetweenCalls ==
  op = "final" =>
    /\ reply.one.ret = reply.two.ret
    /\ reply.one.value = reply.two.value
    /\ valid = twin.valid

\* the part of C16 that holds: the return code and the valid flag do not
\* depend on the history, and for fewer than 1706 payload bits the decoded
\* value does not either
C16_NoStateBelowMax ==
  op = "final" =>
    /\ reply.one.ret = reply.two.ret
    /\ valid = twin.valid
    /\ cfg.c.o_ack < SRSLTE_UCI_NR_MAX_NOF_BITS => reply.one.value = reply.two.value

\* 1706 HARQ-ACK bits decoded on two handles: each reports the payload an
\* earlier encode call left in q->bit_sequence
C16_LeftoverReported ==
  /\ op = "final"
  /\ cfg.c.o_ack = SRSLTE_UCI_NR_MAX_NOF_BITS
  /\ cfg.history.first.kind = "encode_pusch_ack"
  /\ cfg.history.second.kind = "encode_pusch_ack"
  /\ cfg.history.first.c.o_ack = SRSLTE_UCI_NR_MAX_NOF_BITS
  /\ cfg.history.second.c.o_ack = SRSLTE_UCI_NR_MAX_NOF_BITS
  /\ cfg.history.first.ack # cfg.history.second.ack
  /\ reply.one.ret = SRSLTE_SUCCESS /\ reply.two.ret = SRSLTE_SUCCESS
  /\ reply.one.value.ack = cfg.history.first.ack
  /\ reply.two.value.ack = cfg.history.second.ack

C21_MinimumKept ==
  /\ pc = "done"
  /\ dec.class = "polar" /\ dec.par.E_r > 0
  /\ srslte_polar_code_get(dec.par.K_r, dec.par.E_r)
  /\ llr_in[1] = INT8_MIN /\ llr[1] = INT8_MIN

\* a poll of the monitor thread in state t extracts a gain: the stream is
\* open and good and a number is next
ReadSucceeds(t) ==
  /\ t.sock.is_open /\ ~t.sock.fail /\ ~t.sock.eof
  /\ t.sock.buf # <<>>
  /\ Head(t.sock.buf).kind = "num"

C22_Step ==
  LET polled == tuner.thread = "poll" /\ tuner'.thread = "test" IN
  /\ tuner'.tuner_attenuation # tuner.tuner_attenuation => polled /\ ReadSucceeds(tuner)
  /\ (polled /\ ReadSucceeds(tuner)) =>
       /\ tuner'.tuner_attenuation = Head(tuner.sock.buf).value
       /\ tuner'.new_gain = [set |-> TRUE, value |-> Head(tuner.sock.buf).value]
  /\ (polled /\ ~ReadSucceeds(tuner)) =>
       /\ tuner'.tuner_attenuation = tuner.tuner_attenuation
       /\ ~tuner'.sock.fail
  /\ (tuner.thread = "test" /\ tuner.new_gain.set) =>
       tuner'.thread \in {"test", IF tuner.new_gain.value > 0 THEN "poll" ELSE "stopped"}
  /\ tuner.thread = "test" => tuner'.thread \in {"test", "poll", "stopped"}
  /\ tuner.thread = "poll" => tuner'.thread \in {"poll", "test"}
  /\ tuner.thread = "stopped" =>
       /\ tuner'.thread = "stopped"
       /\ tuner'.tuner_attenuation = tuner.tuner_attenuation
  /\ op' = "tuner_execute" =>
       \E h \in {tuner'.attenuation} \cup tuner'.seen :
         reply'.out = srsran_vec_sc_prod_cfc(cfg'.in, h, cfg'.nsamples)

\* C22: only a poll of the monitor thread that extracts a gain from the socket
\* changes tuner_attenuation, and it stores that gain, positive or not; a poll
\* whose extraction fails leaves the attenuation as it was and the stream
\* cleared; the loop goes on to the next poll when the gain variable is > 0
\* and stops when it is <= 0; a stopped thread stays stopped and the
\* attenuation stays as it is; srsran_channel_tuner_execute multiplies its
\* samples by the constructor's attenuation or by a gain extracted from the
\* socket.
C22_TunerMonitor == [][C22_Step]_vars

\* the thread has stored a gain <= 0 read from the socket and stopped, after
\* an earlier positive gain, and an execute has scaled by the stored gain
C22_Witness ==
  /\ tuner # <<>>
  /\ tuner.thread = "stopped"
  /\ tuner.ok
  /\ tuner.tuner_attenuation <= 0
  /\ tuner.tuner_attenuation = tuner.new_gain.value
  /\ \E g \in tuner.seen : g > 0
  /\ op = "tuner_execute"
  /\ cfg.nsamples = 2
  /\ reply.out = srsran_vec_sc_prod_cfc(cfg.in, tuner.tuner_attenuation, 2)
  /\ reply.out # srsran_vec_sc_prod_cfc(cfg.in, tuner.attenuation, 2)

\* a poll found nothing to extract after a gain had been stored: the stored
\* gain is still the attenuation, the stream is cleared, the loop goes on
C22_FailedReadKept ==
  /\ tuner # <<>>
  /\ tuner.thread = "poll"
  /\ ~tuner.ok
  /\ tuner.new_gain.set
  /\ tuner.tuner_attenuation = tuner.new_gain.value
  /\ tuner.tuner_attenuation # tuner.attenuation
  /\ ~tuner.sock.fail

\* text that is no number ends the thread: the extraction stored 0 in the gain
\* variable, the attenuation is the constructor's
C22_StoppedOnText ==
  /\ tuner # <<>>
  /\ tuner.thread = "stopped"
  /\ ~tuner.ok
  /\ tuner.new_gain = [set |-> TRUE, value |-> 0]
  /\ tuner.seen = {}
  /\ tuner.tuner_attenuation = tuner.attenuation

\* the first poll found nothing and the loop test read a gain variable nobody
\* wrote: the thread stopped, or went on
C22_UnwrittenGainStopped ==
  /\ tuner # <<>>
  /\ tuner.thread = "stopped"
  /\ ~tuner.new_gain.set

C22_UnwrittenGainPolledAgain ==
  /\ tuner # <<>>
  /\ tuner.thread = "poll"
  /\ ~tuner.new_gain.set
  /\ tuner.sock.is_open
  /\ ~tuner.sock.fail
  /\ tuner.written = 0
  /\ op = "tuner_execute"

====
